---- MODULE Spec2Model ----
(***************************************************************************)
(* A model of BydlanBot (src/bot.py): the Scheduled Announcer, the         *)
(* Response Decision Policy, the importance / sentiment scoring of the     *)
(* memory engine, Profile Evolution, the Vector Index, the Recency Window  *)
(* and the Persistent Store with its schema, the message handlers with the *)
(* cooldown gate, and the inference limiter.                               *)
(*                                                                         *)
(* Text is a sequence of Unicode code points (Python's str), so substring  *)
(* tests, lower-casing and lengths are computed as Python computes them.   *)
(* Comments transliterate the Cyrillic literals of the source.             *)
(***************************************************************************)
EXTENDS Integers, Sequences, FiniteSets, TLC

VARIABLES
    \* --- Scheduled Announcer (ScheduledMessages, check_scheduled_messages)
    now,                 \* the Moscow clock: [date, hour]
    weekday0,            \* weekday (0 = Monday) of date 0
    last_greeting_date,  \* ScheduledMessages.last_greeting_date (None or a date)
    last_farewell_date,  \* ScheduledMessages.last_farewell_date
    sent_count,          \* gateway: send_message calls of ticks, per slot and date
    last_sent,           \* observer: ticks in this clock hour, send_message calls of the latest
    \* --- Response Decision Policy (MessageAnalyzer.should_respond)
    event,               \* the event under decision: text, scope, profile, draws
    decision,            \* what should_respond returned for it
    \* --- Scoring (AdvancedContextManager._calculate_importance/_analyze_sentiment)
    message,             \* the Message being scored: text, has_image
    scored,              \* its derived importance (tenths) and sentiment
    \* --- Profile Evolution (AdvancedContextManager._update_user_profile)
    user_profiles,       \* AdvancedContextManager.user_profiles: user_id -> UserProfile
    db_user_profiles,    \* the rows of table user_profiles
    profile_op,          \* observer: the latest operation on the profiles
    pure_run,            \* observer: per author, the events of an all-positive history
    \* --- Vector Index (VectorMemory)
    embeddings,          \* VectorMemory.embeddings
    messages,            \* VectorMemory.messages
    added,               \* observer: the events added successfully, in order
    index_op,            \* observer: the latest operation on the index and its result
    \* --- Recency Window and Persistent Store (AdvancedContextManager, DatabaseManager)
    recent_messages,     \* AdvancedContextManager.recent_messages (a deque)
    pushed,              \* observer: the events appended to the window by this process
    db_messages,         \* the rows of table messages, in insertion order
    save_tasks,          \* the _save_message_async tasks created and not yet run
    clock,               \* time.time()
    store_op,            \* observer: the latest operation of the memory engine
    \* --- Schema of the store file (DatabaseManager.init_database)
    messages_table,      \* table messages of the file: its attachment columns and rows
    schema_op,           \* observer: the latest statement run on it and its outcome
    \* --- Inference limiter (SmartBot.semaphore, SmartBot.ask_local_model)
    semaphore,           \* asyncio.Semaphore: its value and the callers waiting in acquire
    callers,             \* the invocations of ask_local_model so far, each with its position
    infer_op,            \* observer: the latest step of an invocation
    \* --- Message handlers and the cooldown gate (SmartBot.check_cooldown)
    last_reaction,       \* SmartBot.last_reaction: author -> time of the last event that passed
    ingested,            \* observer: per author, the calls of add_message of this process
    accepted_at,         \* observer: per author, when an event last passed the gate (0: never)
    reply_tasks,         \* the handler invocations suspended in their awaits, by message_id
    gate_op,             \* observer: the latest handler invocation, up to its first await
    reply_log,           \* observer: per event of the group past the gate, decision, calls of ask_local_model, messages sent
    \* --- Reply post-processing (SmartBot.ask_local_model, lines 967-980)
    model_response,      \* what the inference service answered to one request
    model_reply          \* what ask_local_model returned for it

schedVars == <<now, weekday0, last_greeting_date, last_farewell_date, sent_count, last_sent>>
decideVars == <<event, decision>>
scoreVars == <<message, scored>>
profileVars == <<user_profiles, db_user_profiles, profile_op, pure_run>>
indexVars == <<embeddings, messages, added, index_op>>
storeVars == <<recent_messages, pushed, db_messages, save_tasks, clock, store_op>>
memVars == <<profileVars, indexVars, storeVars>>
schemaVars == <<messages_table, schema_op>>
inferVars == <<semaphore, callers, infer_op>>
gateVars == <<last_reaction, ingested, accepted_at, reply_tasks, gate_op, reply_log>>
replyVars == <<model_response, model_reply>>
botVars == <<schemaVars, inferVars, gateVars, replyVars>>
vars == <<schedVars, decideVars, scoreVars, memVars, botVars>>

\* last_greeting_date = None (line 162): no date
NoDate == -1

(***************************************************************************)
(* Python string operations on code-point sequences.                       *)
(***************************************************************************)

\* str.lower() of one code point: Latin A-Z, Cyrillic A-YA and YO; every other
\* code point used by the model has no lower-case form.
LowerChar(c) ==
    IF c >= 65 /\ c <= 90 THEN c + 32
    ELSE IF c >= 1040 /\ c <= 1071 THEN c + 32
    ELSE IF c = 1025 THEN 1105
    ELSE c

lower(s) == [i \in 1..Len(s) |-> LowerChar(s[i])]

\* Python's `sub in s`
In(sub, s) ==
    \E i \in 1..(Len(s) - Len(sub) + 1) :
        \A j \in 1..Len(sub) : s[i + j - 1] = sub[j]

\* any(word in s for word in words)
AnyIn(words, s) == \E k \in 1..Len(words) : In(words[k], s)

\* sum(1 for word in words if word in s)
CountIn(words, s) == Cardinality({k \in 1..Len(words) : In(words[k], s)})

\* str.isspace() of one code point (the white space str.split() and strip() use)
IsSpace(c) == c \in {9, 10, 11, 12, 13, 28, 29, 30, 31, 32, 133, 160}

\* The least element of a non-empty set of integers
Least(S) == CHOOSE i \in S : \A j \in S : i <= j

\* str.replace(sub, ""): occurrences removed left to right, without overlap.
\* The text up to the leftmost occurrence is kept and the rest is searched.
RECURSIVE Remove(_, _)
Remove(s, sub) ==
    LET found == {i \in 1..(Len(s) - Len(sub) + 1) :
                     SubSeq(s, i, i + Len(sub) - 1) = sub}
    IN  IF Len(sub) = 0 \/ found = {} THEN s
        ELSE SubSeq(s, 1, Least(found) - 1)
             \o Remove(SubSeq(s, Least(found) + Len(sub), Len(s)), sub)

RECURSIVE RemoveEach(_, _)
RemoveEach(s, subs) ==
    IF subs = <<>> THEN s ELSE RemoveEach(Remove(s, Head(subs)), Tail(subs))

\* " ".join(s.split()): white-space runs collapsed to one space, ends trimmed
RECURSIVE Collapse(_, _)
Collapse(s, pending) ==
    IF s = <<>> THEN <<>>
    ELSE IF IsSpace(s[1]) THEN Collapse(Tail(s), TRUE)
    ELSE LET spaces == {i \in 1..Len(s) : IsSpace(s[i])}
             word == IF spaces = {} THEN Len(s) ELSE Least(spaces) - 1
         IN  (IF pending THEN <<32>> ELSE <<>>) \o SubSeq(s, 1, word)
             \o Collapse(SubSeq(s, word + 1, Len(s)), FALSE)

RECURSIVE SkipSpace(_)
SkipSpace(s) == IF s # <<>> /\ IsSpace(s[1]) THEN SkipSpace(Tail(s)) ELSE s

JoinSplit(s) == Collapse(SkipSpace(s), FALSE)

(***************************************************************************)
(* Literals of the source, as code points.                                 *)
(***************************************************************************)

\* MessageAnalyzer.__init__, bot.py:718: ["bot" (Cyrillic), "bot", "dimon" (Cyrillic), "@"]
bot_mentions ==
    << <<1073, 1086, 1090>>, <<98, 111, 116>>, <<1076, 1080, 1084, 1086, 1085>>, <<64>>
    >>

\* bot.py:719: ["privet" (Cyrillic), "zdarova" (Cyrillic), "salam" (Cyrillic), "haj" (Cyrillic), "hello", "darova" (Cyrillic)]
greeting_words ==
    << <<1087, 1088, 1080, 1074, 1077, 1090>>, <<1079, 1076, 1072, 1088, 1086, 1074,
    1072>>, <<1089, 1072, 1083, 1072, 1084>>, <<1093, 1072, 1081>>, <<104, 101, 108,
    108, 111>>, <<1076, 1072, 1088, 1086, 1074, 1072>> >>

\* bot.py:720: ["?", "kak" (Cyrillic), "chto" (Cyrillic), "gde" (Cyrillic), "kogda" (Cyrillic), "pochemu" (Cyrillic), "zachem" (Cyrillic), "mozhesh'" (Cyrillic), "pomogi" (Cyrillic)]
question_indicators ==
    << <<63>>, <<1082, 1072, 1082>>, <<1095, 1090, 1086>>, <<1075, 1076, 1077>>,
    <<1082, 1086, 1075, 1076, 1072>>, <<1087, 1086, 1095, 1077, 1084, 1091>>, <<1079,
    1072, 1095, 1077, 1084>>, <<1084, 1086, 1078, 1077, 1096, 1100>>, <<1087, 1086,
    1084, 1086, 1075, 1080>> >>

\* bot.py:721: ["kod" (Cyrillic), "programm" (Cyrillic), "bag" (Cyrillic), "server" (Cyrillic), "baza" (Cyrillic), "api", "front" (Cyrillic), "bek" (Cyrillic), "js", "python"]
tech_words ==
    << <<1082, 1086, 1076>>, <<1087, 1088, 1086, 1075, 1088, 1072, 1084, 1084>>,
    <<1073, 1072, 1075>>, <<1089, 1077, 1088, 1074, 1077, 1088>>, <<1073, 1072, 1079,
    1072>>, <<97, 112, 105>>, <<1092, 1088, 1086, 1085, 1090>>, <<1073, 1101, 1082>>,
    <<106, 115>>, <<112, 121, 116, 104, 111, 110>> >>

\* _calculate_importance, bot.py:590: ["bot" (Cyrillic), "bot", "dimon" (Cyrillic)]
importance_bot_words ==
    << <<1073, 1086, 1090>>, <<98, 111, 116>>, <<1076, 1080, 1084, 1086, 1085>> >>

\* _calculate_importance, bot.py:593: ["kod" (Cyrillic), "programm" (Cyrillic), "bag" (Cyrillic), "server" (Cyrillic), "baza" (Cyrillic), "api"]
importance_tech_words ==
    << <<1082, 1086, 1076>>, <<1087, 1088, 1086, 1075, 1088, 1072, 1084, 1084>>,
    <<1073, 1072, 1075>>, <<1089, 1077, 1088, 1074, 1077, 1088>>, <<1073, 1072, 1079,
    1072>>, <<97, 112, 105>> >>

\* _analyze_sentiment, bot.py:604: ["kruto" (Cyrillic), "otlichno" (Cyrillic), "spasibo" (Cyrillic), "klass" (Cyrillic), "zachyot" (Cyrillic), "top" (Cyrillic), "rzhaka" (Cyrillic), "smeshno" (Cyrillic)]
positive_words ==
    << <<1082, 1088, 1091, 1090, 1086>>, <<1086, 1090, 1083, 1080, 1095, 1085, 1086>>,
    <<1089, 1087, 1072, 1089, 1080, 1073, 1086>>, <<1082, 1083, 1072, 1089, 1089>>,
    <<1079, 1072, 1095, 1105, 1090>>, <<1090, 1086, 1087>>, <<1088, 1078, 1072, 1082,
    1072>>, <<1089, 1084, 1077, 1096, 1085, 1086>> >>

\* _analyze_sentiment, bot.py:605: ["hujnya" (Cyrillic), "der'mo" (Cyrillic), "govno" (Cyrillic), "ploho" (Cyrillic), "tupo" (Cyrillic), "bred" (Cyrillic)]
negative_words ==
    << <<1093, 1091, 1081, 1085, 1103>>, <<1076, 1077, 1088, 1100, 1084, 1086>>,
    <<1075, 1086, 1074, 1085, 1086>>, <<1087, 1083, 1086, 1093, 1086>>, <<1090, 1091,
    1087, 1086>>, <<1073, 1088, 1077, 1076>> >>

\* ask_local_model, bot.py:969: ["###", "Assistant:", "System:", "I am a", "Dimon:" (Cyrillic)]
garbage_markers ==
    << <<35, 35, 35>>, <<65, 115, 115, 105, 115, 116, 97, 110, 116, 58>>, <<83, 121,
    115, 116, 101, 109, 58>>, <<73, 32, 97, 109, 32, 97>>, <<1044, 1080, 1084, 1086,
    1085, 58>> >>

\* bot.py:254: "Salam pacany! Pyatnichka pod'ehala, skoro na vyhodnye <U+1F525>" (53 code points)
GREETING_FALLBACK_FRIDAY ==
    <<1057, 1072, 1083, 1072, 1084, 32, 1087, 1072, 1094, 1072, 1085, 1099, 33, 32,
    1055, 1103, 1090, 1085, 1080, 1095, 1082, 1072, 32, 1087, 1086, 1076, 1098, 1077,
    1093, 1072, 1083, 1072, 44, 32, 1089, 1082, 1086, 1088, 1086, 32, 1085, 1072, 32,
    1074, 1099, 1093, 1086, 1076, 1085, 1099, 1077, 32, 128293>>

\* bot.py:256: "Dobroe utro, komanda! Pognali rabotat' <U+1F4AA>" (40 code points)
GREETING_FALLBACK_WEEKDAY ==
    <<1044, 1086, 1073, 1088, 1086, 1077, 32, 1091, 1090, 1088, 1086, 44, 32, 1082,
    1086, 1084, 1072, 1085, 1076, 1072, 33, 32, 1055, 1086, 1075, 1085, 1072, 1083,
    1080, 32, 1088, 1072, 1073, 1086, 1090, 1072, 1090, 1100, 32, 128170>>

\* bot.py:298: "Vsyo, pacany, vyhodnye! Otdyhajte normal'no <U+1F37B>" (44 code points)
FAREWELL_FALLBACK_FRIDAY ==
    <<1042, 1089, 1105, 44, 32, 1087, 1072, 1094, 1072, 1085, 1099, 44, 32, 1074, 1099,
    1093, 1086, 1076, 1085, 1099, 1077, 33, 32, 1054, 1090, 1076, 1099, 1093, 1072,
    1081, 1090, 1077, 32, 1085, 1086, 1088, 1084, 1072, 1083, 1100, 1085, 1086, 32,
    127867>>

\* bot.py:300: "Do zavtra, komanda! Horoshego vechera <U+1F44B>" (37 code points)
FAREWELL_FALLBACK_WEEKDAY ==
    <<1044, 1086, 32, 1079, 1072, 1074, 1090, 1088, 1072, 44, 32, 1082, 1086, 1084,
    1072, 1085, 1076, 1072, 33, 32, 1061, 1086, 1088, 1086, 1096, 1077, 1075, 1086, 32,
    1074, 1077, 1095, 1077, 1088, 1072, 32, 128075>>

\* bot.py:960: "Hujnya s serverom, poprobuj eshchyo raz." (35 code points)
REPLY_BAD_STATUS ==
    <<1061, 1091, 1081, 1085, 1103, 32, 1089, 32, 1089, 1077, 1088, 1074, 1077, 1088,
    1086, 1084, 44, 32, 1087, 1086, 1087, 1088, 1086, 1073, 1091, 1081, 32, 1077, 1097,
    1105, 32, 1088, 1072, 1079, 46>>

\* bot.py:965: "Model' zatupila, blya." (21 code points)
REPLY_NO_CHOICES ==
    <<1052, 1086, 1076, 1077, 1083, 1100, 32, 1079, 1072, 1090, 1091, 1087, 1080, 1083,
    1072, 44, 32, 1073, 1083, 1103, 46>>

\* bot.py:975: "CHyo?" (3 code points)
REPLY_TOO_SHORT ==
    <<1063, 1105, 63>>

\* bot.py:983: "Model' tupit, dolgo dumaet." (27 code points)
REPLY_TIMEOUT ==
    <<1052, 1086, 1076, 1077, 1083, 1100, 32, 1090, 1091, 1087, 1080, 1090, 44, 32,
    1076, 1086, 1083, 1075, 1086, 32, 1076, 1091, 1084, 1072, 1077, 1090, 46>>

\* bot.py:986: "CHto-to poshlo ne tak, blya." (25 code points)
REPLY_EXCEPTION ==
    <<1063, 1090, 1086, 45, 1090, 1086, 32, 1087, 1086, 1096, 1083, 1086, 32, 1085,
    1077, 32, 1090, 1072, 1082, 44, 32, 1073, 1083, 1103, 46>>

\* sample raw completion: "  Dimon: Dobroe utro,\n pacany! ###" (34 code points)
RAW_GREETING ==
    <<32, 32, 1044, 1080, 1084, 1086, 1085, 58, 32, 1044, 1086, 1073, 1088, 1086, 1077,
    32, 1091, 1090, 1088, 1086, 44, 10, 32, 1087, 1072, 1094, 1072, 1085, 1099, 33, 32,
    35, 35, 35>>

\* sample raw completion: " ok" (3 code points)
RAW_SHORT ==
    <<32, 111, 107>>

(***************************************************************************)
(* The inference service and SmartBot.ask_local_model.                     *)
(***************************************************************************)

MIN_REPLY_LENGTH == 3
MAX_REPLY_LENGTH == 300

\* str.strip()
RECURSIVE StripRight(_)
StripRight(s) ==
    IF s # <<>> /\ IsSpace(s[Len(s)]) THEN StripRight(SubSeq(s, 1, Len(s) - 1)) ELSE s

strip(s) == StripRight(SkipSpace(s))

\* What one request to the inference service comes to: a completion, or one of
\* the failures ask_local_model tells apart.
RawReplies == {RAW_GREETING, RAW_SHORT}

InferenceResponses ==
    [kind : {"timeout", "bad_status", "empty_choices", "exception"}, content : {<<>>}]
    \cup [kind : {"ok"}, content : RawReplies]

clean_reply_short_inclusive(content) ==
    LET reply == JoinSplit(RemoveEach(strip(content), garbage_markers)) IN
    IF Len(reply) <= MIN_REPLY_LENGTH THEN REPLY_TOO_SHORT
    ELSE IF Len(reply) > MAX_REPLY_LENGTH
         THEN SubSeq(reply, 1, MAX_REPLY_LENGTH) \o <<46, 46, 46>>
         ELSE reply

\* Lines 967-980: the post-processing of a completion.
clean_reply(content) ==
    LET reply == JoinSplit(RemoveEach(strip(content), garbage_markers)) IN
    IF Len(reply) < MIN_REPLY_LENGTH THEN REPLY_TOO_SHORT
    ELSE IF Len(reply) > MAX_REPLY_LENGTH
         THEN SubSeq(reply, 1, MAX_REPLY_LENGTH) \o <<46, 46, 46>>
         ELSE reply

\* Every exit of ask_local_model is a return: each failure of the request is
\* caught inside it (lines 957-965, 982-986) and answered with a fixed string.
ask_local_model(resp) ==
    CASE resp.kind = "bad_status" -> REPLY_BAD_STATUS
      [] resp.kind = "empty_choices" -> REPLY_NO_CHOICES
      [] resp.kind = "timeout" -> REPLY_TIMEOUT
      [] resp.kind = "exception" -> REPLY_EXCEPTION
      [] OTHER -> clean_reply(resp.content)

\* Whether ask_local_model raises into its caller: it does not, whatever the
\* service does.
ask_local_model_raises(resp) == FALSE

MaxPieces == 3

\* Pieces of completions: "#", "##", "Assistant:", "I", "  am a" (after two
\* spaces), "ok!", one space, and 150 filler characters
ReplyPieces ==
    << <<35>>, <<35, 35>>, garbage_markers[2], <<73>>, <<32, 32, 97, 109, 32, 97>>,
       <<111, 107, 33>>, <<32>>, [i \in 1..150 |-> 122] >>

\* The completions of up to `n` pieces
RECURSIVE CompletionsOf(_)
CompletionsOf(n) ==
    IF n = 0 THEN {<<>>}
    ELSE LET shorter == CompletionsOf(n - 1) IN
         shorter \cup {c \o ReplyPieces[k] : c \in shorter, k \in DOMAIN ReplyPieces}

\* What the service may answer to the request: a failure, or a completion
ReplyResponses ==
    [kind : {"timeout", "bad_status", "empty_choices", "exception"}, content : {<<>>}]
    \cup [kind : {"ok"}, content : CompletionsOf(MaxPieces)]

NoModelResponse == [kind |-> "none", content |-> <<>>, seen |-> FALSE]

\* One request of ask_local_model (lines 935-986) and what the call returns
post_process ==
    /\ ~model_response.seen
    /\ \E resp \in ReplyResponses :
          /\ model_response' = [kind |-> resp.kind, content |-> resp.content,
                                seen |-> TRUE]
          /\ model_reply' = ask_local_model(resp)

ReplyIdle ==
    /\ model_response = NoModelResponse
    /\ model_reply = <<>>

(***************************************************************************)
(* Scheduled Announcer.                                                    *)
(***************************************************************************)

MaxDay == 3
\* Ticks within one clock hour are counted up to TickCap (more may happen).
TickCap == 2

Min(a, b) == IF a < b THEN a ELSE b

WEEKEND_START == 5
MORNING_HOUR_START == 8
MORNING_HOUR_END == 9
EVENING_HOUR_START == 17
EVENING_HOUR_END == 18
FRIDAY == 4

Slots == {"morning", "evening"}
Dates == 0..MaxDay

\* datetime.weekday() of the Moscow clock
weekday(t) == (weekday0 + t.date) % 7

\* should_send_greeting without the "not sent today yet" test of lines 186-188
should_send_greeting_no_date_test(t, last) ==
    IF weekday(t) >= WEEKEND_START THEN FALSE
    ELSE IF ~(MORNING_HOUR_START <= t.hour /\ t.hour < MORNING_HOUR_END) THEN FALSE
    ELSE TRUE

\* should_send_greeting with the last date kept as a latch: once sent, never again
should_send_greeting_latched(t, last) ==
    IF weekday(t) >= WEEKEND_START THEN FALSE
    ELSE IF ~(MORNING_HOUR_START <= t.hour /\ t.hour < MORNING_HOUR_END) THEN FALSE
    ELSE IF last # NoDate THEN FALSE
    ELSE TRUE

\* Lines 173-190
should_send_greeting(t, last) ==
    IF weekday(t) >= WEEKEND_START THEN FALSE
    ELSE IF ~(MORNING_HOUR_START <= t.hour /\ t.hour < MORNING_HOUR_END) THEN FALSE
    ELSE IF last = t.date THEN FALSE
    ELSE TRUE

\* should_send_farewell with the weekend test off by one (Saturday passes)
should_send_farewell_saturday(t, last) ==
    IF weekday(t) > WEEKEND_START THEN FALSE
    ELSE IF ~(EVENING_HOUR_START <= t.hour /\ t.hour < EVENING_HOUR_END) THEN FALSE
    ELSE IF last = t.date THEN FALSE
    ELSE TRUE

\* Lines 192-209
should_send_farewell(t, last) ==
    IF weekday(t) >= WEEKEND_START THEN FALSE
    ELSE IF ~(EVENING_HOUR_START <= t.hour /\ t.hour < EVENING_HOUR_END) THEN FALSE
    ELSE IF last = t.date THEN FALSE
    ELSE TRUE

generate_morning_greeting_date_on_success(t, resp, last) ==
    [reply |-> ask_local_model(resp),
     last_date |-> IF resp.kind = "ok" THEN t.date ELSE last]

\* Lines 211-256: the reply and the new last_greeting_date
generate_morning_greeting(t, resp, last) ==
    LET is_friday == weekday(t) = FRIDAY IN
    IF ask_local_model_raises(resp)
    THEN [reply |-> IF is_friday THEN GREETING_FALLBACK_FRIDAY
                    ELSE GREETING_FALLBACK_WEEKDAY,
          last_date |-> last]
    ELSE [reply |-> ask_local_model(resp), last_date |-> t.date]

\* Lines 258-300: the reply and the new last_farewell_date
generate_evening_farewell(t, resp, last) ==
    LET is_friday == weekday(t) = FRIDAY IN
    IF ask_local_model_raises(resp)
    THEN [reply |-> IF is_friday THEN FAREWELL_FALLBACK_FRIDAY
                    ELSE FAREWELL_FALLBACK_WEEKDAY,
          last_date |-> last]
    ELSE [reply |-> ask_local_model(resp), last_date |-> t.date]

\* One send_message call of a tick, as the gateway sees it
Announcement(slot, t, text, resp, ok) ==
    [slot |-> slot, date |-> t.date, text |-> text, inference |-> resp.kind,
     delivered |-> ok]

NoResponse == [kind |-> "exception", content |-> <<>>]

\* Lines 1137-1170: one timer tick. respG/respF are what the inference service
\* answers for the greeting and the farewell, okG/okF whether the gateway's
\* send_message returns (TRUE) or raises (FALSE); a raise leaves the handler
\* through its except clause, skipping the farewell check. The clock is read
\* once: the requests of one tick are bounded by the 45 s inference timeout.
check_scheduled_messages ==
    \E respG \in InferenceResponses, respF \in InferenceResponses,
       okG \in BOOLEAN, okF \in BOOLEAN :
        LET g == should_send_greeting(now, last_greeting_date)
            greeting == generate_morning_greeting(now, respG, last_greeting_date)
            f == (g => okG) /\ should_send_farewell(now, last_farewell_date)
            farewell == generate_evening_farewell(now, respF, last_farewell_date)
            outG == IF g THEN <<Announcement("morning", now, greeting.reply, respG, okG)>>
                    ELSE <<>>
            outF == IF f THEN <<Announcement("evening", now, farewell.reply, respF, okF)>>
                    ELSE <<>>
        IN  /\ ~g => (respG = NoResponse /\ okG)
            /\ ~f => (respF = NoResponse /\ okF)
            /\ last_greeting_date' = IF g THEN greeting.last_date ELSE last_greeting_date
            /\ last_farewell_date' = IF f THEN farewell.last_date ELSE last_farewell_date
            /\ sent_count' = [s \in Slots, d \in Dates |->
                    sent_count[s, d]
                    + (IF g /\ s = "morning" /\ d = now.date THEN 1 ELSE 0)
                    + (IF f /\ s = "evening" /\ d = now.date THEN 1 ELSE 0)]
            /\ last_sent' = [ticks |-> Min(last_sent.ticks + 1, TickCap),
                             out |-> outG \o outF]
            /\ UNCHANGED <<now, weekday0>>

\* What the inference service answers during the command: a completion or
\* a timeout
CommandResponses == {r \in InferenceResponses : r.kind \in {"ok", "timeout"}}

\* The schedule_test command (lines 1268-1294): both generators are called,
\* whatever the day and the hour, and their texts are sent back to the chat
\* of the command in one reply; no send_message of a tick happens.
schedule_test ==
    \E respG \in CommandResponses, respF \in CommandResponses :
        /\ last_greeting_date' =
               generate_morning_greeting(now, respG, last_greeting_date).last_date
        /\ last_farewell_date' =
               generate_evening_farewell(now, respF, last_farewell_date).last_date
        /\ last_sent' = [ticks |-> last_sent.ticks, out |-> <<>>]
        /\ UNCHANGED <<now, weekday0, sent_count>>

\* The clock moves on by one hour.
AdvanceClock ==
    /\ ~(now.date = MaxDay /\ now.hour = 23)
    /\ now' = IF now.hour = 23 THEN [date |-> now.date + 1, hour |-> 0]
              ELSE [date |-> now.date, hour |-> now.hour + 1]
    /\ last_sent' = [ticks |-> 0, out |-> <<>>]
    /\ UNCHANGED <<weekday0, last_greeting_date, last_farewell_date, sent_count>>

SchedIdle ==
    /\ now = [date |-> 0, hour |-> 0]
    /\ last_greeting_date = NoDate
    /\ last_farewell_date = NoDate
    /\ sent_count = [s \in Slots, d \in Dates |-> 0]
    /\ last_sent = [ticks |-> 0, out |-> <<>>]

\* n filler characters ("z")
Filler(n) == [i \in 1..n |-> 122]

\* sample event text: "bot, kak dela?" (14 code points)
TEXT_BOT_KAK_DELA ==
    <<1073, 1086, 1090, 44, 32, 1082, 1072, 1082, 32, 1076, 1077, 1083, 1072, 63>>

\* sample event text, no keyword: "ok" (2 code points)
TEXT_OK ==
    <<1086, 1082>>

\* sample event text, no keyword: "Ura" (3 code points)
TEXT_URA ==
    <<1059, 1088, 1072>>

\* sample event text: "Privet vsem" (11 code points)
TEXT_PRIVET ==
    <<1055, 1088, 1080, 1074, 1077, 1090, 32, 1074, 1089, 1077, 1084>>

\* sample event text: "privet, chto s serverom" (22 code points)
TEXT_PRIVET_SERVER ==
    <<1087, 1088, 1080, 1074, 1077, 1090, 44, 32, 1095, 1090, 1086, 32, 1089, 32, 1089,
    1077, 1088, 1074, 1077, 1088, 1086, 1084>>

\* sample event text: "Gde vse" (7 code points)
TEXT_GDE ==
    <<1043, 1076, 1077, 32, 1074, 1089, 1077>>

\* sample event text (holds "bot"): "rabota" (6 code points)
TEXT_RABOTA ==
    <<1088, 1072, 1073, 1086, 1090, 1072>>

\* sample event text: "Python rulit" (12 code points)
TEXT_PYTHON ==
    <<80, 121, 116, 104, 111, 110, 32, 1088, 1091, 1083, 1080, 1090>>

\* sample event text: "HELLO" (5 code points)
TEXT_HELLO ==
    <<72, 69, 76, 76, 79>>

\* sample event text: "@vasya" (6 code points)
TEXT_AT ==
    <<64, 118, 97, 115, 121, 97>>

\* sample event text: "kakoj bag" (9 code points)
TEXT_KAKOJ_BAG ==
    <<1082, 1072, 1082, 1086, 1081, 32, 1073, 1072, 1075>>

\* fragment: "kruto" (5 code points)
FRAG_KRUTO ==
    <<1082, 1088, 1091, 1090, 1086>>

\* fragment: "spasibo" (7 code points)
FRAG_SPASIBO ==
    <<1089, 1087, 1072, 1089, 1080, 1073, 1086>>

\* fragment: "Otlichno" (7 code points)
FRAG_OTLICHNO ==
    <<1054, 1090, 1083, 1080, 1095, 1085, 1086>>

\* fragment: "ploho" (5 code points)
FRAG_PLOHO ==
    <<1087, 1083, 1086, 1093, 1086>>

\* fragment: "BRED" (4 code points)
FRAG_BRED ==
    <<1041, 1056, 1045, 1044>>

\* fragment: "rzhaka" (5 code points)
FRAG_RZHAKA ==
    <<1088, 1078, 1072, 1082, 1072>>

\* fragment: "?" (1 code points)
FRAG_QUESTION ==
    <<63>>

\* fragment: "Bot" (3 code points)
FRAG_BOT ==
    <<1041, 1086, 1090>>

\* fragment: "kod" (3 code points)
FRAG_KOD ==
    <<1082, 1086, 1076>>

\* fragment, no keyword: "nu" (2 code points)
FRAG_NU ==
    <<1085, 1091>>

\* fragment: "Bot?" (4 code points)
FRAG_BOT_QUESTION ==
    <<1041, 1086, 1090, 63>>

\* fragment: "kod" (Cyrillic) and 101 filler characters
FRAG_KOD_LONG == FRAG_KOD \o Filler(101)

(***************************************************************************)
(* Scheduled Announcer: properties (specification SpecSched).              *)
(***************************************************************************)

IsWorkday(t) == weekday(t) \in 0..4
WindowHour(slot) == IF slot = "morning" THEN 8 ELSE 17
LastSentDate(slot) == IF slot = "morning" THEN last_greeting_date ELSE last_farewell_date

\* C1: however the ticks fall, each slot is announced at most once per date,
\* and once two or more ticks have fallen inside a slot's window on a workday
\* exactly one announcement of that slot has been generated and sent that day.
C1_AtMostOncePerDate ==
    /\ \A s \in Slots, d \in Dates : sent_count[s, d] <= 1
    /\ \A s \in Slots :
        (IsWorkday(now) /\ now.hour = WindowHour(s) /\ last_sent.ticks >= 2)
            => sent_count[s, now.date] = 1

\* Two ticks inside the morning window of one workday, one greeting sent.
C1_Witness ==
    /\ IsWorkday(now) /\ now.hour = 8 /\ last_sent.ticks >= 2
    /\ sent_count["morning", now.date] = 1

\* C2: a step sends a slot's announcement only on a workday, inside the slot's
\* hour, for today's date and when the slot's last-sent date is not today.
C2_SendOnlyIfGuard ==
    [][\A s \in Slots, d \in Dates :
          sent_count'[s, d] # sent_count[s, d]
              => /\ d = now.date
                 /\ IsWorkday(now)
                 /\ now.hour = WindowHour(s)
                 /\ LastSentDate(s) # now.date]_vars

\* A farewell has just been sent.
C2_Witness ==
    \E i \in DOMAIN last_sent.out :
        last_sent.out[i].slot = "evening" /\ sent_count["evening", now.date] = 1

CannedMessage(slot, is_friday) ==
    IF slot = "morning"
    THEN (IF is_friday THEN GREETING_FALLBACK_FRIDAY ELSE GREETING_FALLBACK_WEEKDAY)
    ELSE (IF is_friday THEN FAREWELL_FALLBACK_FRIDAY ELSE FAREWELL_FALLBACK_WEEKDAY)

\* C3: when the inference service fails during a slot transition, the text
\* announced is the canned message of the slot and weekday kind.
C3_CannedTextOnFailure ==
    \A i \in DOMAIN last_sent.out :
        last_sent.out[i].inference # "ok"
            => last_sent.out[i].text
                   = CannedMessage(last_sent.out[i].slot, weekday(now) = FRIDAY)

\* C4: the first tick inside a slot's window on a workday sends the slot's
\* announcement and records today, whatever date the slot was last sent on.
C4_PendingAgainEachDay ==
    [][\A s \in Slots :
          (/\ last_sent.ticks = 0
           /\ last_sent'.ticks = 1
           /\ IsWorkday(now)
           /\ now.hour = WindowHour(s))
              => /\ sent_count'[s, now.date] = sent_count[s, now.date] + 1
                 /\ LastSentDate(s)' = now.date
                 /\ \E i \in DOMAIN last_sent'.out :
                        /\ last_sent'.out[i].slot = s
                        /\ last_sent'.out[i].date = now.date]_vars

\* The greeting was sent on an earlier date and again today.
C4_Witness ==
    \E d \in Dates :
        /\ d < now.date
        /\ sent_count["morning", d] = 1
        /\ sent_count["morning", now.date] = 1
        /\ last_greeting_date = now.date

(***************************************************************************)
(* Profiles, as far as the decision policy reads them.                     *)
(***************************************************************************)

\* user_profiles.get(user.id) found nothing
NoProfile == [exists |-> FALSE, interaction_count |-> 0, relationship_level |-> "neznakomec"]

update_relationship_level_from(level, count) ==
    IF count >= 50 THEN "bratan"
    ELSE IF count >= 20 THEN "priyatel"
    ELSE IF count >= 5 THEN "znakomyj"
    ELSE level

\* Lines 649-654 of _update_user_profile: the tier after an update that brought
\* the interaction count to `count` ("bratan" close friend, "priyatel" friend,
\* "znakomyj" acquaintance, "neznakomec" stranger).
update_relationship_level(level, count) ==
    IF count > 50 THEN "bratan"
    ELSE IF count > 20 THEN "priyatel"
    ELSE IF count > 5 THEN "znakomyj"
    ELSE level

\* The profile of an author after `count` updates (lines 620-654): created as a
\* stranger with count 0, then counted and re-tiered once per event.
RECURSIVE LevelAfter(_)
LevelAfter(count) ==
    IF count = 0 THEN "neznakomec"
    ELSE update_relationship_level(LevelAfter(count - 1), count)

ProfileAfter(count) ==
    [exists |-> TRUE, interaction_count |-> count, relationship_level |-> LevelAfter(count)]

(***************************************************************************)
(* Response Decision Policy: MessageAnalyzer.should_respond.               *)
(* Probabilities are in hundredths; a draw k stands for a value of         *)
(* random.random() in [k/100, (k+1)/100).                                  *)
(***************************************************************************)

Result(respond, reason, used) ==
    [respond |-> respond, reason |-> reason, draws_used |-> used]

\* Lines 732-739
relationship_bonus(profile) ==
    IF profile.exists
    THEN IF profile.relationship_level = "bratan" THEN 30
         ELSE IF profile.relationship_level = "priyatel" THEN 20
         ELSE IF profile.relationship_level = "znakomyj" THEN 10
         ELSE 0
    ELSE 0

\* random_rules with the relationship bonus left out of the 0.08 test
random_rules_no_bonus(profile, bonus, draws) ==
    IF profile.exists /\ profile.interaction_count > 10
    THEN IF draws[1] < 15 + bonus THEN Result(TRUE, "active_user", 1)
         ELSE IF draws[2] < 8 THEN Result(TRUE, "random_response", 2)
         ELSE Result(FALSE, "no_reason", 2)
    ELSE IF draws[1] < 8 THEN Result(TRUE, "random_response", 1)
         ELSE Result(FALSE, "no_reason", 1)

\* Lines 756-765: the probabilistic tail. draws[k] is the k-th value the random
\* source yields during this call.
random_rules(profile, bonus, draws) ==
    IF profile.exists /\ profile.interaction_count > 10
    THEN IF draws[1] < 15 + bonus THEN Result(TRUE, "active_user", 1)
         ELSE IF draws[2] < 8 + bonus THEN Result(TRUE, "random_response", 2)
         ELSE Result(FALSE, "no_reason", 2)
    ELSE IF draws[1] < 8 + bonus THEN Result(TRUE, "random_response", 1)
         ELSE Result(FALSE, "no_reason", 1)

\* keyword_rules with the question rule tried before the technical one
keyword_rules_question_first(text, profile, draws) ==
    LET message_lower == lower(text) IN
    IF AnyIn(bot_mentions, message_lower) THEN Result(TRUE, "direct_mention", 0)
    ELSE IF AnyIn(question_indicators, message_lower)
         THEN Result(TRUE, "question_to_chat", 0)
    ELSE IF AnyIn(tech_words, message_lower) THEN Result(TRUE, "tech_question", 0)
    ELSE IF AnyIn(greeting_words, message_lower) THEN Result(TRUE, "greeting", 0)
    ELSE IF Len(text) > 200 THEN Result(TRUE, "long_post", 0)
    ELSE random_rules(profile, relationship_bonus(profile), draws)

\* Lines 741-754: the keyword and length rules, in the order of the source
keyword_rules(text, profile, draws) ==
    LET message_lower == lower(text) IN
    IF AnyIn(bot_mentions, message_lower) THEN Result(TRUE, "direct_mention", 0)
    ELSE IF AnyIn(tech_words, message_lower) THEN Result(TRUE, "tech_question", 0)
    ELSE IF AnyIn(question_indicators, message_lower)
         THEN Result(TRUE, "question_to_chat", 0)
    ELSE IF AnyIn(greeting_words, message_lower) THEN Result(TRUE, "greeting", 0)
    ELSE IF Len(text) > 200 THEN Result(TRUE, "long_post", 0)
    ELSE random_rules(profile, relationship_bonus(profile), draws)

\* should_respond with the direct-conversation test after the keyword rules
should_respond_private_last(text, profile, is_private, draws) ==
    LET r == keyword_rules(text, profile, draws) IN
    IF r.draws_used = 0 THEN r
    ELSE IF is_private THEN Result(TRUE, "private_message", 0)
    ELSE r

\* Lines 723-765
should_respond(text, profile, is_private, draws) ==
    IF is_private THEN Result(TRUE, "private_message", 0)
    ELSE keyword_rules(text, profile, draws)

\* The events the policy is run on.
SampleTexts ==
    {TEXT_BOT_KAK_DELA, TEXT_OK, TEXT_URA, TEXT_PRIVET, TEXT_PRIVET_SERVER, TEXT_GDE,
     TEXT_RABOTA, TEXT_PYTHON, TEXT_HELLO, TEXT_AT, TEXT_KAKOJ_BAG,
     Filler(250), Filler(200), Filler(201), <<1093, 1072, 1081>> \o Filler(200)}

SampleProfiles == {NoProfile} \cup {ProfileAfter(c) : c \in {5, 6, 10, 11, 21, 51}}

\* A draw on each side of every threshold (8 and 15, plus a bonus of 10, 20 or
\* 30): each threshold is in the set, and so is a smaller value above the
\* threshold before it.
SampleDraws == {0, 8, 15, 18, 25, 28, 35, 38, 45}

NoEvent ==
    [text |-> <<>>, is_private |-> FALSE, profile |-> NoProfile, draws |-> <<0, 0>>,
     seen |-> FALSE]

\* One call of should_respond, as handle_flood_message (lines 1059-1061) and
\* handle_private_message (line 1122) make it.
Decide ==
    /\ ~event.seen
    /\ \E text \in SampleTexts, profile \in SampleProfiles, is_private \in BOOLEAN,
          d1 \in SampleDraws, d2 \in SampleDraws :
        /\ event' = [text |-> text, is_private |-> is_private, profile |-> profile,
                     draws |-> <<d1, d2>>, seen |-> TRUE]
        /\ decision' = should_respond(text, profile, is_private, <<d1, d2>>)

DecideIdle ==
    /\ event = NoEvent
    /\ decision = Result(FALSE, "no_reason", 0)

(***************************************************************************)
(* Scoring: _calculate_importance and _analyze_sentiment. Importance is in *)
(* tenths (0.5 is 5).                                                      *)
(***************************************************************************)

\* calculate_importance without the clamp of line 600
calculate_importance_unclamped(text, has_image) ==
    5 + (IF Len(text) > 100 THEN 2 ELSE 0)
      + (IF In(<<63>>, text) THEN 1 ELSE 0)
      + (IF AnyIn(importance_bot_words, lower(text)) THEN 3 ELSE 0)
      + (IF AnyIn(importance_tech_words, lower(text)) THEN 2 ELSE 0)
      + (IF has_image THEN 3 ELSE 0)

\* Lines 580-600
calculate_importance(text, has_image) ==
    LET i0 == 5
        i1 == IF Len(text) > 100 THEN i0 + 2 ELSE i0
        i2 == IF In(<<63>>, text) THEN i1 + 1 ELSE i1
        i3 == IF AnyIn(importance_bot_words, lower(text)) THEN i2 + 3 ELSE i2
        i4 == IF AnyIn(importance_tech_words, lower(text)) THEN i3 + 2 ELSE i3
        i5 == IF has_image THEN i4 + 3 ELSE i4
    IN  Min(i5, 10)

\* classify_sentiment with a tie counted as positive
classify_sentiment_tie_positive(pos_count, neg_count) ==
    IF pos_count >= neg_count THEN "positive"
    ELSE "negative"

\* Lines 611-616
classify_sentiment(pos_count, neg_count) ==
    IF pos_count > neg_count THEN "positive"
    ELSE IF neg_count > pos_count THEN "negative"
    ELSE "neutral"

\* Lines 602-616
analyze_sentiment(text) ==
    LET text_lower == lower(text) IN
    classify_sentiment(CountIn(positive_words, text_lower),
                       CountIn(negative_words, text_lower))

MaxFrags == 2

Fragments ==
    {FRAG_KRUTO, FRAG_SPASIBO, FRAG_OTLICHNO, FRAG_PLOHO, FRAG_BRED, FRAG_RZHAKA,
     FRAG_QUESTION, FRAG_BOT, FRAG_KOD, FRAG_NU, Filler(101), FRAG_BOT_QUESTION,
     FRAG_KOD_LONG}

\* The texts of up to n fragments, separated by spaces
RECURSIVE TextsOf(_)
TextsOf(n) ==
    IF n = 0 THEN {<<>>}
    ELSE LET shorter == TextsOf(n - 1) IN
         shorter \cup {IF t = <<>> THEN f ELSE t \o <<32>> \o f :
                           t \in shorter, f \in Fragments}

NoMessage == [text |-> <<>>, has_image |-> FALSE, seen |-> FALSE]

\* Lines 559-560 of add_message: the derived fields of one Message
Score ==
    /\ ~message.seen
    /\ \E text \in TextsOf(MaxFrags), has_image \in BOOLEAN :
        /\ message' = [text |-> text, has_image |-> has_image, seen |-> TRUE]
        /\ scored' = [importance |-> calculate_importance(text, has_image),
                      sentiment |-> analyze_sentiment(text)]

ScoreIdle ==
    /\ message = NoMessage
    /\ scored = [importance |-> 5, sentiment |-> "neutral"]

(***************************************************************************)
(* Response Decision Policy: properties (specification SpecDecide). The    *)
(* source's reason tags are "private_message" (direct channel) and         *)
(* "no_reason" (none).                                                     *)
(***************************************************************************)

Mentions(words, text) == \E k \in DOMAIN words : In(words[k], lower(text))

\* The deterministic rules 2-6, in the order of precedence
RuleReasons == <<"direct_mention", "tech_question", "question_to_chat", "greeting", "long_post">>

RuleHolds(k, text) ==
    CASE k = 1 -> Mentions(bot_mentions, text)
      [] k = 2 -> Mentions(tech_words, text)
      [] k = 3 -> Mentions(question_indicators, text)
      [] k = 4 -> Mentions(greeting_words, text)
      [] OTHER -> Len(text) > 200

\* The reason of the first deterministic rule that holds of a text, or "none"
FirstRule(text) ==
    LET holding == {k \in DOMAIN RuleReasons : RuleHolds(k, text)} IN
    IF holding = {} THEN "none"
    ELSE RuleReasons[CHOOSE k \in holding : \A j \in holding : k <= j]

\* Bonus by tier, in hundredths: 0.3 / 0.2 / 0.1 / 0
TierBonus(profile) ==
    IF ~profile.exists THEN 0
    ELSE CASE profile.relationship_level = "bratan" -> 30
           [] profile.relationship_level = "priyatel" -> 20
           [] profile.relationship_level = "znakomyj" -> 10
           [] OTHER -> 0

ResponseReasons ==
    {"private_message", "direct_mention", "tech_question", "question_to_chat",
     "greeting", "long_post", "active_user", "random_response"}

GroupEvent == event.seen /\ ~event.is_private

\* C5: for a direct conversation the decision is (true, direct channel) for
\* every text and profile, and no random draw is consumed.
C5_DirectAlwaysResponds ==
    (event.seen /\ event.is_private) => decision = Result(TRUE, "private_message", 0)

\* A direct event whose text holds keywords and whose author has a profile.
C5_Witness ==
    /\ event.seen /\ event.is_private
    /\ event.text = TEXT_PRIVET_SERVER
    /\ event.profile.exists /\ event.profile.interaction_count > 10
    /\ decision.reason = "private_message"

\* C6: for a group event of which a deterministic rule holds, the decision is
\* (true, reason of the first such rule), whatever the profile and the draws;
\* "bot, kak dela?" gives direct_mention, 250 plain characters give long_post.
C6_FirstRuleWins ==
    /\ GroupEvent
           => LET first == FirstRule(event.text) IN
              first # "none" => decision = Result(TRUE, first, 0)
    /\ (GroupEvent /\ event.text = TEXT_BOT_KAK_DELA)
           => decision = Result(TRUE, "direct_mention", 0)
    /\ (GroupEvent /\ event.text = Filler(250) /\ ~event.profile.exists)
           => decision = Result(TRUE, "long_post", 0)

\* A group event of which the technical, question and greeting rules all hold.
C6_Witness ==
    /\ GroupEvent
    /\ event.text = TEXT_PRIVET_SERVER
    /\ Mentions(question_indicators, event.text)
    /\ Mentions(greeting_words, event.text)
    /\ decision.reason = "tech_question"

\* C7: for a group event matching no deterministic rule, from an author with
\* more than 10 interactions, one draw decides: active_user if it is below
\* 0.15 + bonus, otherwise no response; random_response is never returned.
C7_ActiveUserSingleDraw ==
    (/\ GroupEvent
     /\ FirstRule(event.text) = "none"
     /\ event.profile.exists
     /\ event.profile.interaction_count > 10)
        => /\ decision.draws_used = 1
           /\ decision.reason # "random_response"
           /\ decision = IF event.draws[1] < 15 + TierBonus(event.profile)
                         THEN Result(TRUE, "active_user", 1)
                         ELSE Result(FALSE, "no_reason", 1)

\* C8: for a group event matching no deterministic rule, from an author with
\* no profile or at most 10 interactions, the decision is (true,
\* random_response) exactly when the draw is below 0.08 + bonus and otherwise
\* (false, none); a decision is negative exactly with the no-reason tag and
\* positive only with one of the eight response reasons.
C8_RandomResponse ==
    /\ (/\ GroupEvent
        /\ FirstRule(event.text) = "none"
        /\ (~event.profile.exists \/ event.profile.interaction_count <= 10))
           => decision = IF event.draws[1] < 8 + TierBonus(event.profile)
                         THEN Result(TRUE, "random_response", 1)
                         ELSE Result(FALSE, "no_reason", 1)
    /\ event.seen
           => /\ ~decision.respond <=> decision.reason = "no_reason"
              /\ decision.respond => decision.reason \in ResponseReasons

\* An acquaintance with at most 10 interactions answered on a draw that only
\* the bonus brings under the threshold.
C8_Witness ==
    /\ GroupEvent
    /\ FirstRule(event.text) = "none"
    /\ event.profile.exists /\ event.profile.interaction_count <= 10
    /\ event.profile.relationship_level = "znakomyj"
    /\ event.draws[1] >= 8
    /\ decision = Result(TRUE, "random_response", 1)

(***************************************************************************)
(* Scoring: properties (specification SpecScore).                          *)
(***************************************************************************)

\* 0.5 + 0.2 + 0.1 + 0.3 + 0.2 + 0.3 over the conditions that hold, in tenths
ImportanceSum(text, has_image) ==
    5 + (IF Len(text) > 100 THEN 2 ELSE 0)
      + (IF \E i \in DOMAIN text : text[i] = 63 THEN 1 ELSE 0)
      + (IF Mentions(importance_bot_words, text) THEN 3 ELSE 0)
      + (IF Mentions(importance_tech_words, text) THEN 2 ELSE 0)
      + (IF has_image THEN 3 ELSE 0)

\* C9: the importance score is min(1.0, 0.5 + the increments of the conditions
\* that hold), lies in [0, 1], and is never lower with an attachment than
\* without one.
C9_ImportanceScore ==
    message.seen
        => /\ scored.importance
                  = (IF ImportanceSum(message.text, message.has_image) > 10 THEN 10
                     ELSE ImportanceSum(message.text, message.has_image))
           /\ scored.importance >= 0 /\ scored.importance <= 10
           /\ calculate_importance(message.text, TRUE)
                  >= calculate_importance(message.text, FALSE)
           /\ message.has_image
                  => scored.importance >= calculate_importance(message.text, FALSE)

\* All five conditions hold at once and the clamp cuts the sum.
C9_Witness ==
    /\ message.seen /\ message.has_image
    /\ Len(message.text) > 100
    /\ Mentions(importance_bot_words, message.text)
    /\ Mentions(importance_tech_words, message.text)
    /\ \E i \in DOMAIN message.text : message.text[i] = 63
    /\ ImportanceSum(message.text, message.has_image) = 16
    /\ scored.importance = 10

PositiveCount(text) == Cardinality({k \in DOMAIN positive_words : In(positive_words[k], lower(text))})
NegativeCount(text) == Cardinality({k \in DOMAIN negative_words : In(negative_words[k], lower(text))})

Flip(sentiment) ==
    CASE sentiment = "positive" -> "negative"
      [] sentiment = "negative" -> "positive"
      [] OTHER -> "neutral"

\* C10: the sentiment is positive iff more positive than negative keywords
\* match, negative iff more negative ones, neutral iff as many (0-0 included);
\* exchanging the two counts flips positive and negative and keeps neutral.
C10_SentimentByCounts ==
    message.seen
        => LET p == PositiveCount(message.text)
               n == NegativeCount(message.text)
           IN  /\ scored.sentiment = "positive" <=> p > n
               /\ scored.sentiment = "negative" <=> n > p
               /\ scored.sentiment = "neutral" <=> p = n
               /\ classify_sentiment(n, p) = Flip(scored.sentiment)

\* One positive and one negative keyword: a tie that is not 0-0.
C10_Witness ==
    /\ message.seen
    /\ PositiveCount(message.text) = 1
    /\ NegativeCount(message.text) = 1
    /\ scored.sentiment = "neutral"

(***************************************************************************)
(* Profile Evolution: AdvancedContextManager._update_user_profile and the  *)
(* profile rows of DatabaseManager. Trait intensities are in tenths (0.5   *)
(* is 5); the traits are "agressivnost" (aggression), "druzhelyubnost"     *)
(* (friendliness) and "yumor" (humor).                                     *)
(***************************************************************************)

\* _update_user_profile, bot.py:646: ["haha" (Cyrillic), "lol" (Cyrillic), "rzhaka" (Cyrillic)]
humor_words ==
    << <<1093, 1072, 1093, 1072>>, <<1083, 1086, 1083>>, <<1088, 1078, 1072, 1082,
    1072>> >>

\* bot.py:638: "memy" (4 code points)
INTEREST_MEMES ==
    <<1084, 1077, 1084, 1099>>

\* fragment: "LOL" (3 code points, Cyrillic capitals)
FRAG_LOL ==
    <<1051, 1054, 1051>>

MaxUpdates == 2

Authors == {1, 2}
Usernames == {"dimon", "vasya"}

\* positive, negative, neutral, positive with a humor word, neutral with one
ProfileTexts == {FRAG_KRUTO, FRAG_PLOHO, FRAG_NU, FRAG_RZHAKA, FRAG_LOL}

\* self.user_profiles = {} (line 521)
EmptyProfiles == [u \in {} |-> 0]

\* self.user_profiles[user_id] = profile
SetItem(dict, key, value) ==
    [k \in DOMAIN dict \cup {key} |-> IF k = key THEN value ELSE dict[k]]

\* Lines 622-630: the profile created for an author the process has not seen
new_profile(msg) ==
    [user_id |-> msg.user_id,
     username |-> msg.username,
     personality_traits |-> [agressivnost |-> 5, druzhelyubnost |-> 5, yumor |-> 5],
     interests |-> <<>>,
     interaction_count |-> 0,
     last_seen |-> msg.timestamp,
     relationship_level |-> "neznakomec"]

\* Lines 637-639
add_interest(interests, has_image) ==
    IF has_image /\ ~(\E i \in 1..Len(interests) : interests[i] = INTEREST_MEMES)
    THEN Append(interests, INTEREST_MEMES)
    ELSE interests

adjust_traits_both(traits, sentiment, text) ==
    LET t1 == IF sentiment = "negative"
              THEN [traits EXCEPT !.agressivnost = @ + 1]
              ELSE traits
        t2 == IF sentiment # "neutral"
              THEN [t1 EXCEPT !.druzhelyubnost = @ + 1]
              ELSE t1
    IN  IF AnyIn(humor_words, lower(text)) THEN [t2 EXCEPT !.yumor = @ + 1] ELSE t2

\* Lines 641-647
adjust_traits(traits, sentiment, text) ==
    LET t1 == IF sentiment = "negative"
              THEN [traits EXCEPT !.agressivnost = @ + 1]
              ELSE IF sentiment = "positive"
              THEN [traits EXCEPT !.druzhelyubnost = @ + 1]
              ELSE traits
    IN  IF AnyIn(humor_words, lower(text)) THEN [t1 EXCEPT !.yumor = @ + 1] ELSE t1

\* Lines 633-654: the profile object after the update's assignments
updated_profile(profile, msg) ==
    [user_id |-> profile.user_id,
     username |-> msg.username,
     personality_traits |-> adjust_traits(profile.personality_traits, msg.sentiment, msg.text),
     interests |-> add_interest(profile.interests, msg.has_image),
     interaction_count |-> profile.interaction_count + 1,
     last_seen |-> msg.timestamp,
     relationship_level |->
         update_relationship_level(profile.relationship_level,
                                   profile.interaction_count + 1)]

\* pickle.dumps / pickle.loads of a dict or a list (lines 479-480, 496-497)
pickle_dumps(value) == [pickle |-> value]
pickle_loads(blob) == blob.pickle

\* The row save_user_profile binds (lines 477-482)
profile_row(profile) ==
    [user_id |-> profile.user_id,
     username |-> profile.username,
     personality_traits |-> pickle_dumps(profile.personality_traits),
     interests |-> pickle_dumps(profile.interests),
     interaction_count |-> profile.interaction_count,
     last_seen |-> profile.last_seen,
     relationship_level |-> profile.relationship_level]

save_user_profile_insert(table, profile) == table \cup {profile_row(profile)}

\* Lines 469-483: INSERT OR REPLACE on the primary key user_id (line 412)
save_user_profile(table, profile) ==
    {r \in table : r.user_id # profile.user_id} \cup {profile_row(profile)}

\* Lines 485-502: the rows of an author read back as profiles (fetchone takes one)
get_user_profile(table, user_id) ==
    {[user_id |-> r.user_id,
      username |-> r.username,
      personality_traits |-> pickle_loads(r.personality_traits),
      interests |-> pickle_loads(r.interests),
      interaction_count |-> r.interaction_count,
      last_seen |-> r.last_seen,
      relationship_level |-> r.relationship_level] : r \in {x \in table : x.user_id = user_id}}

\* create_message_object (lines 1020-1035): the fields the memory engine reads;
\* sentiment, importance, has_image and image_description keep the defaults
\* of the dataclass (lines 313-316; <<>> stands for image_description = None)
create_message_object(user_id, username, text, timestamp, message_id) ==
    [user_id |-> user_id, username |-> username, text |-> text,
     timestamp |-> timestamp, message_id |-> message_id,
     sentiment |-> "None", importance |-> 5,
     has_image |-> FALSE, image_description |-> <<>>]

\* Lines 559-560 of add_message
score_message(msg) ==
    [msg EXCEPT !.importance = calculate_importance(msg.text, msg.has_image),
                !.sentiment = analyze_sentiment(msg.text)]

\* The scored Message of an event
ProfileMessage(user_id, username, text, timestamp) ==
    score_message(create_message_object(user_id, username, text, timestamp, timestamp))

NoProfileMessage == ProfileMessage(0, "", <<>>, 0)

\* An event with a positive word and no humor word (lines 643 and 646)
PurePositive(msg) ==
    msg.sentiment = "positive" /\ ~AnyIn(humor_words, lower(msg.text))

NoProfileOp ==
    [kind |-> "none", user_id |-> 0, saved |-> FALSE, updates |-> 0,
     before |-> new_profile(NoProfileMessage), message |-> NoProfileMessage]

ProfileUpdate_when_saved(msg, db_ok) ==
    LET user_id == msg.user_id
        before == IF user_id \in DOMAIN user_profiles
                  THEN user_profiles[user_id]
                  ELSE new_profile(msg)
        after == updated_profile(before, msg)
    IN  /\ user_profiles' = IF db_ok THEN SetItem(user_profiles, user_id, after)
                            ELSE user_profiles
        /\ db_user_profiles' = IF db_ok
                               THEN save_user_profile(db_user_profiles, after)
                               ELSE db_user_profiles
        /\ profile_op' = [kind |-> "update", user_id |-> user_id, saved |-> db_ok,
                          updates |-> profile_op.updates + 1,
                          before |-> before, message |-> msg]
        /\ pure_run' = [pure_run EXCEPT ![user_id] =
                           IF PurePositive(msg) /\ @ >= 0 THEN @ + 1 ELSE -1]

\* _update_user_profile(message) (lines 618-656). When the store refuses the
\* write (sqlite3.Error out of line 656) the update raises after the profile
\* object has been changed.
ProfileUpdate(msg, db_ok) ==
    LET user_id == msg.user_id
        before == IF user_id \in DOMAIN user_profiles
                  THEN user_profiles[user_id]
                  ELSE new_profile(msg)
        after == updated_profile(before, msg)
    IN  /\ user_profiles' = SetItem(user_profiles, user_id, after)
        /\ db_user_profiles' = IF db_ok
                               THEN save_user_profile(db_user_profiles, after)
                               ELSE db_user_profiles
        /\ profile_op' = [kind |-> "update", user_id |-> user_id, saved |-> db_ok,
                          updates |-> profile_op.updates + 1,
                          before |-> before, message |-> msg]
        /\ pure_run' = [pure_run EXCEPT ![user_id] =
                           IF PurePositive(msg) /\ @ >= 0 THEN @ + 1 ELSE -1]

\* self._update_user_profile(message), called by add_message (line 566). The
\* event's timestamp is time.time() of its handler, later for each event.
update_user_profile ==
    /\ profile_op.updates < MaxUpdates
    /\ \E user_id \in Authors, username \in Usernames, text \in ProfileTexts,
          db_ok \in BOOLEAN :
          ProfileUpdate(ProfileMessage(user_id, username, text, profile_op.updates + 1),
                        db_ok)

\* The profiles of a new process: AdvancedContextManager.__init__ (line 521).
\* The rows of the store stay; nothing reads them into user_profiles.
restart_profiles ==
    /\ user_profiles' = EmptyProfiles
    /\ db_user_profiles' = db_user_profiles
    /\ profile_op' = [NoProfileOp EXCEPT !.kind = "restart", !.updates = profile_op.updates]
    /\ pure_run' = [u \in Authors |-> IF pure_run[u] = 0 THEN 0 ELSE -1]

\* The profile object of an author after `count` events with the same text,
\* the first of them from an author the process had not seen (lines 620-654)
RECURSIVE ProfileEvents(_, _, _)
\* One update per event, as the handler runs them: `next` is bound to the
\* value of the profile after the event before the following event is applied
ProfileEvents(profile, msg, count) ==
    IF count = 0 THEN profile
    ELSE CHOOSE last \in {ProfileEvents(next, msg, count - 1) :
                             next \in {updated_profile(profile, msg)}} : TRUE

ProfileAfterEvents(msg, count) == ProfileEvents(new_profile(msg), msg, count)

\* Histories the profiles start from: no event, neutral events up to one short
\* of each tier's last count, and positive events; the second author is new
\* or has four neutral events
StartHistories ==
    {start \in [Authors -> {[text |-> FRAG_NU, count |-> 0], [text |-> FRAG_NU, count |-> 4],
                            [text |-> FRAG_NU, count |-> 19], [text |-> FRAG_NU, count |-> 49],
                            [text |-> FRAG_KRUTO, count |-> 4]}] :
        start[2].text = FRAG_NU /\ start[2].count <= 4}

\* Every author's events so far were ingested by this process and saved
ProfilesStart(start) ==
    LET known == {u \in Authors : start[u].count > 0}
        msg(u) == ProfileMessage(u, "dimon", start[u].text, 0)
        seed(u) == ProfileAfterEvents(msg(u), start[u].count)
    IN  /\ user_profiles = [u \in known |-> seed(u)]
        /\ db_user_profiles = {profile_row(seed(u)) : u \in known}
        /\ profile_op = NoProfileOp
        /\ pure_run = [u \in Authors |->
                          IF u \notin known THEN 0
                          ELSE IF PurePositive(msg(u)) THEN start[u].count
                          ELSE -1]

ProfilesIdle == ProfilesStart([u \in Authors |-> [text |-> FRAG_NU, count |-> 0]])

(***************************************************************************)
(* Vector Index: VectorMemory. An embedding is a vector of four            *)
(* components in tenths, so a dot product is in hundredths (0.3 is 30).    *)
(***************************************************************************)

\* VectorMemory.add_message, bot.py:346: " [KARTINKA: " (12 code points)
IMAGE_TAG_OPEN ==
    <<32, 91, 1050, 1040, 1056, 1058, 1048, 1053, 1050, 1040, 58, 32>>

\* bot.py:346: "]" (1 code points)
IMAGE_TAG_CLOSE ==
    <<93>>

VECTOR_MEMORY_LIMIT == 1000
SIMILARITY_THRESHOLD == 30
SMART_CONTEXT_SIMILAR == 3

\* self.encoder.encode([text])[0] when the embedding service answers: the
\* same vector for the same text. "kod" and "Bot" are close (0.6), "kod" and
\* "kruto" are at the threshold (0.3), "ploho" is orthogonal to the others.
encode(text) ==
    CASE text = FRAG_KOD -> <<10, 0, 0, 0>>
      [] text = FRAG_BOT -> <<6, 8, 0, 0>>
      [] text = FRAG_NU -> <<0, 10, 0, 0>>
      [] text = FRAG_KRUTO -> <<3, 0, 0, 9>>
      [] text = FRAG_PLOHO -> <<0, 0, 10, 0>>
      [] OTHER -> <<0, 0, 7, 7>>

\* np.dot of two embeddings
dot(a, b) == a[1] * b[1] + a[2] * b[2] + a[3] * b[3] + a[4] * b[4]

\* Lines 344-346
text_for_embedding(msg) ==
    IF msg.image_description # <<>>
    THEN msg.text \o IMAGE_TAG_OPEN \o msg.image_description \o IMAGE_TAG_CLOSE
    ELSE msg.text

\* s[-n:] for n > 0
LastN(s, n) == IF Len(s) <= n THEN s ELSE SubSeq(s, Len(s) - n + 1, Len(s))

\* s[:n]
FirstN(s, n) == IF Len(s) <= n THEN s ELSE SubSeq(s, 1, n)

vector_add_message_keep_oldest(embs, msgs, msg, enc_ok) ==
    IF ~enc_ok THEN [embeddings |-> embs, messages |-> msgs]
    ELSE [embeddings |-> FirstN(Append(embs, encode(text_for_embedding(msg))),
                                VECTOR_MEMORY_LIMIT),
          messages |-> FirstN(Append(msgs, msg), VECTOR_MEMORY_LIMIT)]

vector_add_message_message_first(embs, msgs, msg, enc_ok) ==
    IF ~enc_ok THEN [embeddings |-> embs, messages |-> Append(msgs, msg)]
    ELSE [embeddings |-> LastN(Append(embs, encode(text_for_embedding(msg))),
                               VECTOR_MEMORY_LIMIT),
          messages |-> LastN(Append(msgs, msg), VECTOR_MEMORY_LIMIT)]

vector_add_message_trim_embeddings(embs, msgs, msg, enc_ok) ==
    IF ~enc_ok THEN [embeddings |-> embs, messages |-> msgs]
    ELSE [embeddings |-> LastN(Append(embs, encode(text_for_embedding(msg))),
                               VECTOR_MEMORY_LIMIT),
          messages |-> Append(msgs, msg)]

\* VectorMemory.add_message (lines 340-356): the two lists after the call. When
\* the encoder raises, the except branch logs and nothing was appended.
vector_add_message(embs, msgs, msg, enc_ok) ==
    IF ~enc_ok THEN [embeddings |-> embs, messages |-> msgs]
    ELSE LET e == Append(embs, encode(text_for_embedding(msg)))
             m == Append(msgs, msg)
         IN  IF Len(e) > VECTOR_MEMORY_LIMIT
             THEN [embeddings |-> LastN(e, VECTOR_MEMORY_LIMIT),
                   messages |-> LastN(m, VECTOR_MEMORY_LIMIT)]
             ELSE [embeddings |-> e, messages |-> m]

\* Lines 366-369: the index sequences np.argsort(similarities)[-limit:][::-1]
\* can give, filtered by similarities[i] > 0.3. The entries that pass the
\* filter rank above all others, so the slice holds the min(limit, passing)
\* best of them, best first; argsort fixes no order among equal similarities,
\* so each order of equals and each choice among equals at the cut is an
\* outcome. The slice's other entries are dropped by the filter.
top_passing(embs, query_embedding, limit, threshold) ==
    LET similarities(i) == dot(embs[i], query_embedding)
        passing == {i \in 1..Len(embs) : similarities(i) > threshold}
        n == Min(limit, Cardinality(passing))
    IN  {h \in [1..n -> passing] :
            /\ \A j, k \in 1..n :
                  j < k => h[j] # h[k] /\ similarities(h[j]) >= similarities(h[k])
            /\ \A c \in passing :
                  (\A j \in 1..n : h[j] # c) =>
                      \A j \in 1..n : similarities(c) <= similarities(h[j])}

search_similar_at_threshold(embs, query, limit, enc_ok) ==
    IF embs = <<>> \/ ~enc_ok THEN {<<>>}
    ELSE top_passing(embs, encode(query), limit, SIMILARITY_THRESHOLD - 1)

\* VectorMemory.search_similar (lines 358-372): the possible results, as
\* positions in self.messages. An empty index returns [] before the encoder
\* is asked; an encoder failure is caught and returns [].
search_similar(embs, query, limit, enc_ok) ==
    IF embs = <<>> \/ ~enc_ok THEN {<<>>}
    ELSE top_passing(embs, encode(query), limit, SIMILARITY_THRESHOLD)

MaxAdds == 3
NearFull == VECTOR_MEMORY_LIMIT - 2

IndexTexts == {FRAG_KOD, FRAG_BOT, FRAG_KRUTO}

NoIndexOp ==
    [kind |-> "none", adds |-> 0, ok |-> FALSE, query |-> <<>>,
     limit |-> 0, hits |-> <<>>, result |-> <<>>]

\* The event `message_id` of the index's history
IndexMessage(text, message_id) ==
    score_message(create_message_object(1, "dimon", text, message_id, message_id))

\* VectorMemory.add_message(message) (lines 340-356)
IndexAdd(msg, enc_ok) ==
    LET index == vector_add_message(embeddings, messages, msg, enc_ok) IN
    /\ embeddings' = index.embeddings
    /\ messages' = index.messages
    /\ added' = IF enc_ok THEN Append(added, msg) ELSE added
    /\ index_op' = [NoIndexOp EXCEPT !.kind = "add", !.ok = enc_ok,
                                     !.adds = index_op.adds + 1]

\* self.vector_memory.add_message(message) (lines 545 and 563)
vector_memory_add ==
    /\ index_op.adds < MaxAdds
    /\ \E text \in IndexTexts, enc_ok \in BOOLEAN :
          IndexAdd(IndexMessage(text, Len(added) + 1), enc_ok)

\* self.vector_memory.search_similar(query, 3) (line 680)
vector_memory_search ==
    \E query \in IndexTexts, enc_ok \in BOOLEAN :
        \E hits \in search_similar(embeddings, query, SMART_CONTEXT_SIMILAR, enc_ok) :
            /\ index_op' = [kind |-> "search", adds |-> index_op.adds, ok |-> enc_ok,
                            query |-> query, limit |-> SMART_CONTEXT_SIMILAR,
                            hits |-> hits,
                            result |-> [k \in 1..Len(hits) |-> messages[hits[k]]]]
            /\ UNCHANGED <<embeddings, messages, added>>

\* The index after `count` adds: events unrelated to every query, the last
\* two of them "kod" and "kruto"
IndexStart(count) ==
    LET text(i) == IF i = count THEN FRAG_KRUTO
                   ELSE IF i = count - 1 THEN FRAG_KOD
                   ELSE FRAG_PLOHO
        history == [i \in 1..count |-> IndexMessage(text(i), i)]
    IN
    /\ embeddings = [i \in 1..count |-> encode(text_for_embedding(history[i]))]
    /\ messages = history
    /\ added = history
    /\ index_op = NoIndexOp

\* VectorMemory.__init__ (lines 336-337)
IndexIdle == IndexStart(0)

(***************************************************************************)
(* Recency Window and Persistent Store: AdvancedContextManager and         *)
(* DatabaseManager. Time is time.time() in whole seconds. A row of table   *)
(* messages is the Message's columns and the embedding blob; the           *)
(* AUTOINCREMENT id, chat_id, is_reply and reply_to_user are not           *)
(* modelled.                                                               *)
(***************************************************************************)

DEFAULT_CLEANUP_DAYS == 30
context_window == 3
MaxEvents == 2

\* 24 * 3600 (line 506)
DAY == 24 * 3600

\* time.time() when the model starts
StartTime == 40 * DAY

\* A function's return value: None, or a value
PyNone == [none |-> TRUE, value |-> 0]

deque_append_drop_new(dq, x, maxlen) ==
    IF Len(dq) >= maxlen THEN dq ELSE Append(dq, x)

\* deque(maxlen=...).append(x) (lines 520, 544, 562): a full deque discards
\* its leftmost element
deque_append(dq, x, maxlen) == LastN(Append(dq, x), maxlen)

\* Lines 571-573
text_for_saving(msg) ==
    IF msg.image_description # <<>> /\ ~In(msg.image_description, msg.text)
    THEN msg.text \o <<32>> \o msg.image_description
    ELSE msg.text

\* DatabaseManager.save_message (lines 429-447): INSERT INTO messages
save_message(table, msg, embedding) ==
    Append(table, [message |-> msg, embedding |-> pickle_dumps(embedding)])

\* _save_message_async (lines 568-578): table messages after the task. The
\* embedding is computed first; an exception of the encoder or of the store
\* is caught and logged.
save_message_async(table, msg, enc_ok, db_ok) ==
    IF enc_ok /\ db_ok
    THEN save_message(table, msg, encode(text_for_saving(msg)))
    ELSE table

cleanup_old_messages_inclusive(table, time, days) ==
    LET cutoff_time == time - (days * 24 * 3600)
        kept == SelectSeq(table, LAMBDA r : ~(r.message.timestamp <= cutoff_time))
    IN  [rows |-> kept, deleted |-> Len(table) - Len(kept), returned |-> PyNone]

\* DatabaseManager.cleanup_old_messages (lines 504-512): the table after the
\* DELETE, cursor.rowcount, and what the function returns (it has no return
\* statement)
cleanup_old_messages(table, time, days) ==
    LET cutoff_time == time - (days * 24 * 3600)
        kept == SelectSeq(table, LAMBDA r : ~(r.message.timestamp < cutoff_time))
    IN  [rows |-> kept, deleted |-> Len(table) - Len(kept), returned |-> PyNone]

\* ORDER BY timestamp: the rows at `positions`, oldest first (equal timestamps
\* in insertion order)
RECURSIVE OrderByTimestamp(_, _)
OrderByTimestamp(table, positions) ==
    IF positions = {} THEN <<>>
    ELSE LET first == CHOOSE i \in positions : \A j \in positions :
                          \/ table[i].message.timestamp < table[j].message.timestamp
                          \/ /\ table[i].message.timestamp = table[j].message.timestamp
                             /\ i <= j
         IN  <<table[first]>> \o OrderByTimestamp(table, positions \ {first})

recent_rows_oldest(table, limit) == FirstN(OrderByTimestamp(table, DOMAIN table), limit)

\* Lines 529-537: reversed(SELECT ... ORDER BY timestamp DESC LIMIT ?)
recent_rows(table, limit) == LastN(OrderByTimestamp(table, DOMAIN table), limit)

\* The memory of a process that has ingested nothing (lines 336-337, 520)
EmptyMemory ==
    [recent_messages |-> <<>>, pushed |-> <<>>,
     embeddings |-> <<>>, messages |-> <<>>, added |-> <<>>]

RECURSIVE WarmUp_until_bad_row(_, _, _, _)
WarmUp_until_bad_row(rows, oks, decoded, mem) ==
    IF rows = <<>> \/ ~Head(decoded) THEN mem
    ELSE LET msg == Head(rows).message
             index == vector_add_message(mem.embeddings, mem.messages, msg, Head(oks))
         IN  WarmUp_until_bad_row(Tail(rows), Tail(oks), Tail(decoded),
                    [recent_messages |-> deque_append(mem.recent_messages, msg,
                                                      context_window),
                     pushed |-> Append(mem.pushed, msg),
                     embeddings |-> index.embeddings,
                     messages |-> index.messages,
                     added |-> IF Head(oks) THEN Append(mem.added, msg) ELSE mem.added])

\* Lines 537-549: each row becomes a Message, is appended to the window and
\* added to the index; oks[i] tells whether the encoder answers for row i
\* (add_message of the index catches its failure, line 355), decoded[i]
\* whether lines 539-542 make a Message of row i: an exception there is
\* caught at line 547 and the loop goes on with the next row
RECURSIVE WarmUp(_, _, _, _)
WarmUp(rows, oks, decoded, mem) ==
    IF rows = <<>> THEN mem
    ELSE IF ~Head(decoded) THEN WarmUp(Tail(rows), Tail(oks), Tail(decoded), mem)
    ELSE LET msg == Head(rows).message
             index == vector_add_message(mem.embeddings, mem.messages, msg, Head(oks))
         IN  WarmUp(Tail(rows), Tail(oks), Tail(decoded),
                    [recent_messages |-> deque_append(mem.recent_messages, msg,
                                                      context_window),
                     pushed |-> Append(mem.pushed, msg),
                     embeddings |-> index.embeddings,
                     messages |-> index.messages,
                     added |-> IF Head(oks) THEN Append(mem.added, msg) ELSE mem.added])

\* load_recent_messages (lines 524-553); when the SELECT fails nothing is loaded
load_recent_messages(table, oks, decoded, db_ok) ==
    IF db_ok THEN WarmUp(recent_rows(table, context_window), oks, decoded, EmptyMemory)
    ELSE EmptyMemory

StoreTexts == {FRAG_NU, FRAG_KRUTO}

NoStoreOp ==
    [kind |-> "none", message |-> NoProfileMessage, enc_ok |-> TRUE, db_ok |-> TRUE,
     before |-> <<>>, time |-> 0, deleted |-> 0, returned |-> PyNone,
     reaction |-> <<>>, rows |-> <<>>, decoded |-> <<>>]

\* AdvancedContextManager.add_message(message) (lines 557-566), `msg` being
\* the Message after lines 559-560: window, index, a task for the store,
\* profile. When the profile's write fails the call raises at its last line.
AddMessage(msg, enc_ok, profile_ok) ==
    /\ recent_messages' = deque_append(recent_messages, msg, context_window)
    /\ pushed' = Append(pushed, msg)
    /\ IndexAdd(msg, enc_ok)
    /\ save_tasks' = Append(save_tasks, msg)
    /\ ProfileUpdate(msg, profile_ok)

\* add_message as the message handlers call it (lines 1056, 1113), with a
\* Message whose timestamp is time.time()
add_message ==
    /\ clock < StartTime + MaxEvents
    /\ \E text \in StoreTexts, enc_ok \in BOOLEAN, profile_ok \in BOOLEAN :
          LET msg == score_message(create_message_object(1, "dimon", text, clock, clock))
          IN  /\ AddMessage(msg, enc_ok, profile_ok)
              /\ clock' = clock + 1
              /\ db_messages' = db_messages
              /\ store_op' = [NoStoreOp EXCEPT !.kind = "add", !.message = msg,
                                               !.enc_ok = enc_ok, !.db_ok = profile_ok]

run_save_task_silent ==
    /\ save_tasks # <<>>
    /\ \E enc_ok \in BOOLEAN, db_ok \in BOOLEAN :
          /\ ~enc_ok => db_ok
          /\ db_messages' = save_message_async(db_messages, Head(save_tasks), enc_ok, db_ok)
          /\ save_tasks' = Tail(save_tasks)
          /\ store_op' = IF enc_ok /\ db_ok
                         THEN [NoStoreOp EXCEPT !.kind = "save",
                                                !.message = Head(save_tasks)]
                         ELSE NoStoreOp
          /\ UNCHANGED <<recent_messages, pushed, clock, indexVars, profileVars>>

\* The event loop runs the oldest pending _save_message_async task (lines
\* 568-578); the task has no await, so it runs to its end. The store is not
\* asked when the encoder has raised.
run_save_task ==
    /\ save_tasks # <<>>
    /\ \E enc_ok \in BOOLEAN, db_ok \in BOOLEAN :
          /\ ~enc_ok => db_ok
          /\ db_messages' = save_message_async(db_messages, Head(save_tasks), enc_ok, db_ok)
          /\ save_tasks' = Tail(save_tasks)
          /\ store_op' = [NoStoreOp EXCEPT !.kind = "save", !.message = Head(save_tasks),
                                           !.enc_ok = enc_ok, !.db_ok = db_ok]
          /\ UNCHANGED <<recent_messages, pushed, clock, indexVars, profileVars>>

cleanup_old_data_evicting ==
    LET done == cleanup_old_messages(db_messages, clock, DEFAULT_CLEANUP_DAYS)
        kept(msg) == \E i \in DOMAIN done.rows : done.rows[i].message = msg
    IN
    /\ db_messages' = done.rows
    /\ recent_messages' = SelectSeq(recent_messages, kept)
    /\ store_op' = [NoStoreOp EXCEPT !.kind = "cleanup", !.before = db_messages,
                                     !.time = clock, !.deleted = done.deleted,
                                     !.returned = done.returned]
    /\ UNCHANGED <<pushed, save_tasks, clock, indexVars, profileVars>>

\* BotConfig.cleanup_interval (line 98), in seconds: the idle horizon of
\* last_reaction
cleanup_interval == 5

prune_last_reaction_eager(reaction, time) ==
    [u \in {v \in DOMAIN reaction : ~(time - reaction[v] >= 0)} |-> reaction[u]]

\* Lines 1010-1014 of cleanup_old_data at time `time`: last_reaction without
\* the authors whose time is more than cleanup_interval back
prune_last_reaction(reaction, time) ==
    [u \in {v \in DOMAIN reaction : ~(time - reaction[v] > cleanup_interval)} |->
        reaction[u]]

\* A run of SmartBot.cleanup_old_data (lines 1005-1016) in which the DELETE
\* answers: cleanup_old_messages(DEFAULT_CLEANUP_DAYS) (line 1008), whose
\* value is dropped, then the pruning of last_reaction (1010-1014)
cleanup_old_data_completes ==
    LET done == cleanup_old_messages(db_messages, clock, DEFAULT_CLEANUP_DAYS) IN
    /\ db_messages' = done.rows
    /\ last_reaction' = prune_last_reaction(last_reaction, clock)
    /\ store_op' = [NoStoreOp EXCEPT !.kind = "cleanup", !.before = db_messages,
                                     !.time = clock, !.deleted = done.deleted,
                                     !.returned = done.returned,
                                     !.reaction = last_reaction]
    /\ UNCHANGED <<recent_messages, pushed, save_tasks, clock, indexVars, profileVars>>

\* SmartBot.cleanup_old_data (lines 1005-1018), the body of cleanup_job (line
\* 1372), over a store file that answers or not: an sqlite3 error of the
\* DELETE (lines 507-511) rolls the statement back and is caught at line
\* 1017, past the pruning.
cleanup_old_data ==
    \/ cleanup_old_data_completes
    \/ /\ store_op' = [NoStoreOp EXCEPT !.kind = "cleanup_failed"]
       /\ UNCHANGED <<db_messages, last_reaction, recent_messages, pushed, save_tasks,
                      clock, indexVars, profileVars>>

\* The encoder's answers to n calls of one warm-up: it answers every call, or
\* raises from some call on
EncoderRuns(n) == {[i \in 1..n |-> i < down] : down \in 1..(n + 1)}

\* Which of the n rows of one warm-up lines 539-542 make a Message of: all of
\* them or, with `bad_rows`, all but one
DecoderRuns(n, bad_rows) ==
    {[i \in 1..n |-> i # bad] : bad \in IF bad_rows THEN 0..n ELSE {0}}

\* A new process: AdvancedContextManager.__init__ (lines 516-522). The store
\* keeps its rows; window and index are rebuilt from the latest rows; the
\* profiles in memory start empty; tasks that had not run are gone.
StartProcess(bad_rows) ==
    \E db_ok \in BOOLEAN :
        \E oks \in EncoderRuns(Min(Len(db_messages), context_window)),
           decoded \in DecoderRuns(Min(Len(db_messages), context_window), bad_rows) :
            LET mem == load_recent_messages(db_messages, oks, decoded, db_ok) IN
            /\ ~db_ok => \A i \in DOMAIN oks : oks[i] /\ decoded[i]
            /\ recent_messages' = mem.recent_messages
            /\ pushed' = mem.pushed
            /\ embeddings' = mem.embeddings
            /\ messages' = mem.messages
            /\ added' = mem.added
            /\ index_op' = [NoIndexOp EXCEPT !.adds = index_op.adds]
            /\ save_tasks' = <<>>
            /\ store_op' = [NoStoreOp EXCEPT
                               !.kind = "restart",
                               !.rows = IF db_ok
                                        THEN recent_rows(db_messages, context_window)
                                        ELSE <<>>,
                               !.decoded = IF db_ok THEN decoded ELSE <<>>]
            /\ restart_profiles
            /\ UNCHANGED <<db_messages, clock>>

\* A new process over a store whose rows were all written by save_message
Restart == StartProcess(FALSE)

\* A new process over a store of which a row may have been damaged since
RestartOverBadRows == StartProcess(TRUE)

\* Events of earlier days: 31 days, 30 days and one day before StartTime
SeedEvents ==
    << score_message(create_message_object(1, "dimon", FRAG_KOD,
                                           StartTime - 31 * DAY, StartTime - 31 * DAY)),
       score_message(create_message_object(1, "dimon", FRAG_NU,
                                           StartTime - 30 * DAY, StartTime - 30 * DAY)),
       score_message(create_message_object(1, "dimon", FRAG_KRUTO,
                                           StartTime - DAY, StartTime - DAY)) >>

\* The profile object after the events `msgs` of one author (lines 620-654)
RECURSIVE ProfileAfterSequence(_)
ProfileAfterSequence(msgs) ==
    IF Len(msgs) = 1 THEN updated_profile(new_profile(msgs[1]), msgs[1])
    ELSE updated_profile(ProfileAfterSequence(SubSeq(msgs, 1, Len(msgs) - 1)),
                         msgs[Len(msgs)])

\* A process constructed over a store that holds the events `history`, all
\* saved with their author's profile by earlier processes
StoreStart(history) ==
    LET table == [i \in 1..Len(history) |->
                     [message |-> history[i],
                      embedding |-> pickle_dumps(encode(text_for_saving(history[i])))]]
        mem == load_recent_messages(table, [i \in 1..Len(history) |-> TRUE],
                                    [i \in 1..Len(history) |-> TRUE], TRUE)
    IN  /\ db_messages = table
        /\ db_user_profiles = IF history = <<>> THEN {}
                              ELSE {profile_row(ProfileAfterSequence(history))}
        /\ recent_messages = mem.recent_messages
        /\ pushed = mem.pushed
        /\ embeddings = mem.embeddings
        /\ messages = mem.messages
        /\ added = mem.added
        /\ index_op = NoIndexOp
        /\ user_profiles = EmptyProfiles
        /\ profile_op = NoProfileOp
        /\ pure_run = [u \in Authors |-> IF history # <<>> /\ u = 1 THEN -1 ELSE 0]
        /\ save_tasks = <<>>
        /\ clock = StartTime
        /\ store_op = NoStoreOp

\* AdvancedContextManager.__init__ over an empty store
MemIdle == StoreStart(<<>>)

(***************************************************************************)
(* Schema of the store file: DatabaseManager.init_database. Table messages *)
(* is seen here as the set of its attachment columns and its rows; a row   *)
(* is a function from "text" and the attachment columns the table has to   *)
(* values. NULL in image_description is the empty text, as in a Message.   *)
(***************************************************************************)

AttachmentColumns == {"has_image", "image_description"}

MaxOldRows == 2
MaxAppends == 2

\* A store file without table messages
NoTable == [exists |-> FALSE, columns |-> {}, rows |-> <<>>]

\* ALTER TABLE messages ADD COLUMN <column> ... DEFAULT <default>: the rows
\* the table has read the default in the new column
alter_add_column(table, column, default) ==
    [exists |-> TRUE,
     columns |-> table.columns \cup {column},
     rows |-> [i \in DOMAIN table.rows |-> table.rows[i] @@ (column :> default)]]

\* init_database (lines 380-427): CREATE TABLE IF NOT EXISTS with every
\* column (lines 385-402), then both ALTER statements inside one try (lines
\* 404-408): a column that exists makes its ALTER raise
\* sqlite3.OperationalError, which ends the try block.
init_database(table) ==
    LET created == IF table.exists THEN table
                   ELSE [exists |-> TRUE, columns |-> AttachmentColumns, rows |-> <<>>]
    IN  IF "has_image" \in created.columns THEN created
        ELSE LET first == alter_add_column(created, "has_image", FALSE)
             IN  IF "image_description" \in first.columns THEN first
                 ELSE alter_add_column(first, "image_description", <<>>)

\* INSERT INTO messages (..., has_image, image_description) (lines 436-446):
\* the statement names both attachment columns
insert_message(table, text) ==
    IF AttachmentColumns \subseteq table.columns
    THEN [ok |-> TRUE,
          table |-> [table EXCEPT !.rows = Append(@, [c \in {"text"} \cup table.columns |->
                                                      CASE c = "text" -> text
                                                        [] c = "has_image" -> FALSE
                                                        [] OTHER -> <<>>])]]
    ELSE [ok |-> FALSE, table |-> table]

\* SELECT ..., has_image, image_description FROM messages (lines 529-533)
\* and lines 539-542: what each row reads as
select_messages(table) ==
    IF AttachmentColumns \subseteq table.columns
    THEN [ok |-> TRUE,
          read |-> [i \in DOMAIN table.rows |->
                       [text |-> table.rows[i]["text"],
                        has_image |-> table.rows[i]["has_image"],
                        image_description |-> table.rows[i]["image_description"]]]]
    ELSE [ok |-> FALSE, read |-> <<>>]

SchemaTexts == {FRAG_NU, FRAG_KRUTO}

\* The rows an older version can have left in a table with `columns`
OldRows(columns) ==
    {[c \in {"text"} \cup columns |->
         CASE c = "text" -> text
           [] c = "has_image" -> image
           [] OTHER -> IF image THEN FRAG_RZHAKA ELSE <<>>] :
        text \in SchemaTexts, image \in BOOLEAN}

\* The store files the process can be started on
OldTables ==
    {NoTable} \cup
    UNION {{[exists |-> TRUE, columns |-> columns, rows |-> rows] :
              rows \in UNION {[1..n -> OldRows(columns)] : n \in 0..MaxOldRows}} :
           columns \in SUBSET AttachmentColumns}

NoSchemaOp ==
    [kind |-> "none", opened |-> FALSE, ok |-> TRUE, appends |-> 0,
     old |-> NoTable, read |-> <<>>]

\* DatabaseManager.__init__ (lines 376-378), at every process start
open_store ==
    /\ messages_table' = init_database(messages_table)
    /\ schema_op' = [schema_op EXCEPT !.kind = "open", !.opened = TRUE, !.ok = TRUE,
                                      !.read = <<>>,
                                      !.old = IF schema_op.opened THEN @
                                              ELSE messages_table]

\* DatabaseManager.save_message (lines 429-447) on the opened store
append_message ==
    /\ schema_op.opened
    /\ schema_op.appends < MaxAppends
    /\ \E text \in SchemaTexts :
          LET done == insert_message(messages_table, text) IN
          /\ messages_table' = done.table
          /\ schema_op' = [schema_op EXCEPT !.kind = "append", !.ok = done.ok,
                                            !.read = <<>>,
                                            !.appends = @ + 1]

\* The SELECT of load_recent_messages (lines 527-535) on the opened store
load_recent ==
    /\ schema_op.opened
    /\ LET done == select_messages(messages_table) IN
       /\ schema_op' = [schema_op EXCEPT !.kind = "load", !.ok = done.ok,
                                         !.read = done.read]
       /\ messages_table' = messages_table

\* A store file of this version that no statement has been run on
SchemaIdle ==
    /\ messages_table = [exists |-> TRUE, columns |-> AttachmentColumns, rows |-> <<>>]
    /\ schema_op = NoSchemaOp

(***************************************************************************)
(* Inference limiter: SmartBot.semaphore and the invocations of            *)
(* ask_local_model by the handlers (lines 1080, 1129) and by the           *)
(* announcement generators (lines 248, 292). An invocation is between      *)
(* `async with self.semaphore` and its return.                             *)
(***************************************************************************)

max_parallel_requests == 2
MaxCallers == 3

CallerKinds == {"flood", "private", "scheduled"}

\* asyncio.Semaphore(config.max_parallel_requests) (line 910)
NewSemaphore == [value |-> max_parallel_requests, waiters |-> <<>>]

\* asyncio.Semaphore.release
semaphore_release(sem) == [sem EXCEPT !.value = @ + 1]

exit_semaphore_unless_timeout(sem, resp) ==
    IF resp.kind = "timeout" THEN sem ELSE semaphore_release(sem)

\* The end of `async with self.semaphore` (line 930): __aexit__ releases on
\* every way out of the block, a return (lines 960, 965, 975, 980, 983, 986)
\* as well as an exception
exit_semaphore(sem, resp) == semaphore_release(sem)

NoInferOp ==
    [kind |-> "none", caller |-> 0, resp |-> "none", reply |-> <<>>, raised |-> FALSE]

\* A caller reaches `async with self.semaphore` (line 930). acquire() returns
\* at once when the value is positive, and the request is sent (line 935);
\* otherwise the caller waits. With callers already waiting, a positive value
\* is taken at once by asyncio up to Python 3.10 and queued behind them from
\* 3.11 on: both are outcomes.
call_ask_local_model ==
    /\ Len(callers) < MaxCallers
    /\ \E kind \in CallerKinds :
          LET id == Len(callers) + 1 IN
          /\ \/ /\ semaphore.value > 0
                /\ semaphore' = [semaphore EXCEPT !.value = @ - 1]
                /\ callers' = Append(callers, [kind |-> kind, pc |-> "request",
                                               requests |-> 1])
             \/ /\ semaphore.value = 0 \/ semaphore.waiters # <<>>
                /\ semaphore' = [semaphore EXCEPT !.waiters = Append(@, id)]
                /\ callers' = Append(callers, [kind |-> kind, pc |-> "waiting",
                                               requests |-> 0])
          /\ infer_op' = [NoInferOp EXCEPT !.kind = "call", !.caller = id]

\* The first waiting caller, woken by a release, finds the value positive,
\* takes it and sends its request (line 935)
wake_up ==
    /\ semaphore.waiters # <<>>
    /\ semaphore.value > 0
    /\ LET id == Head(semaphore.waiters) IN
       /\ semaphore' = [value |-> semaphore.value - 1,
                        waiters |-> Tail(semaphore.waiters)]
       /\ callers' = [callers EXCEPT ![id].pc = "request", ![id].requests = @ + 1]
       /\ infer_op' = [NoInferOp EXCEPT !.kind = "acquire", !.caller = id]

inference_responds_retrying ==
    \E id \in DOMAIN callers, resp \in InferenceResponses :
        /\ callers[id].pc = "request"
        /\ IF resp.kind = "timeout" /\ callers[id].requests < 2
           THEN /\ callers' = [callers EXCEPT ![id].requests = @ + 1]
                /\ semaphore' = semaphore
                /\ infer_op' = [NoInferOp EXCEPT !.kind = "retry", !.caller = id,
                                                 !.resp = resp.kind]
           ELSE /\ callers' = [callers EXCEPT ![id].pc = "returned"]
                /\ semaphore' = exit_semaphore(semaphore, resp)
                /\ infer_op' = [kind |-> "return", caller |-> id, resp |-> resp.kind,
                                reply |-> ask_local_model(resp),
                                raised |-> ask_local_model_raises(resp)]

\* The request of an invocation ends (lines 956-986): with a completion, an
\* error status, no choices, the total timeout of the session (line 932) or
\* another exception. ask_local_model returns its string and the block of
\* the semaphore is left.
inference_responds ==
    \E id \in DOMAIN callers, resp \in InferenceResponses :
        /\ callers[id].pc = "request"
        /\ callers' = [callers EXCEPT ![id].pc = "returned"]
        /\ semaphore' = exit_semaphore(semaphore, resp)
        /\ infer_op' = [kind |-> "return", caller |-> id, resp |-> resp.kind,
                        reply |-> ask_local_model(resp),
                        raised |-> ask_local_model_raises(resp)]

\* SmartBot.__init__ (line 910): no invocation yet
InferIdle ==
    /\ semaphore = NewSemaphore
    /\ callers = <<>>
    /\ infer_op = NoInferOp

(***************************************************************************)
(* Message handlers: handle_flood_message and handle_private_message up to *)
(* their first await that suspends, with SmartBot.check_cooldown. The time *)
(* of an event is time.time() of its handler, in whole seconds.            *)
(***************************************************************************)

cooldown == 4
MaxArrivals == 2

\* A user id of a bot account
BotUser == 3

cooldown_factor_close_friend(level) == 5

\* Lines 994-998, in tenths: the factor applied to config.cooldown
cooldown_factor(level) ==
    IF level = "bratan" THEN 5
    ELSE IF level = "priyatel" THEN 7
    ELSE 10

\* self.context_manager.user_profiles.get(user_id) and `if profile:` (lines
\* 991, 994): the tier the gate reads, "none" without a profile
gate_level(profiles, user_id) ==
    IF user_id \in DOMAIN profiles THEN profiles[user_id].relationship_level ELSE "none"

check_cooldown_always_stamps(reaction, profiles, user_id, time) ==
    LET last == IF user_id \in DOMAIN reaction THEN reaction[user_id] ELSE 0
        stamped == SetItem(reaction, user_id, time)
    IN  IF 10 * (time - last) < cooldown * cooldown_factor(gate_level(profiles, user_id))
        THEN [ok |-> FALSE, last_reaction |-> stamped]
        ELSE [ok |-> TRUE, last_reaction |-> stamped]

\* SmartBot.check_cooldown (lines 988-1003) at time `time`: the answer and
\* last_reaction afterwards. Reading the defaultdict (line 909) for an author
\* it does not hold inserts 0.0.
check_cooldown(reaction, profiles, user_id, time) ==
    LET last == IF user_id \in DOMAIN reaction THEN reaction[user_id] ELSE 0
        read == SetItem(reaction, user_id, last)
    IN  IF 10 * (time - last) < cooldown * cooldown_factor(gate_level(profiles, user_id))
        THEN [ok |-> FALSE, last_reaction |-> read]
        ELSE [ok |-> TRUE, last_reaction |-> SetItem(read, user_id, time)]

\* What should_respond reads of user_profiles.get(user.id) (lines 730-739)
decision_profile(profiles, user_id) ==
    IF user_id \in DOMAIN profiles
    THEN [exists |-> TRUE, interaction_count |-> profiles[user_id].interaction_count,
          relationship_level |-> profiles[user_id].relationship_level]
    ELSE NoProfile

NoGateOp ==
    [kind |-> "none", user_id |-> 0, is_bot |-> FALSE, time |-> 0, message_id |-> 0,
     passed |-> FALSE, previous |-> 0, level |-> "none", added |-> FALSE,
     respond |-> FALSE, reason |-> "none", outcome |-> "none", calls |-> 0,
     unpruned |-> FALSE]

\* `if user.is_bot or not message.text or not smart_bot.check_cooldown(user.id):
\* return` (lines 1049, 1098) for an event that does not get through: a bot's
\* event returns before the gate is asked. The handlers are registered for
\* text messages (filters.TEXT), so message.text is not empty.
GateReturns(kind, user_id, is_bot) ==
    LET gate == check_cooldown(last_reaction, user_profiles, user_id, clock) IN
    /\ is_bot \/ ~gate.ok
    /\ last_reaction' = IF is_bot THEN last_reaction ELSE gate.last_reaction
    /\ gate_op' = [NoGateOp EXCEPT !.kind = kind, !.user_id = user_id, !.is_bot = is_bot,
                                   !.time = clock, !.message_id = gate_op.calls + 1,
                                   !.previous = IF is_bot THEN 0 ELSE accepted_at[user_id],
                                   !.level = gate_level(user_profiles, user_id),
                                   !.outcome = "returned", !.calls = gate_op.calls + 1,
                                   !.unpruned = ~is_bot /\ check_cooldown(
                                       accepted_at, user_profiles, user_id, clock).ok]
    /\ UNCHANGED <<ingested, accepted_at, reply_tasks, reply_log, memVars>>

handler_continues_whatever_decided(kind, text, profile, draws, profile_ok) ==
    IF ~profile_ok
    THEN [respond |-> FALSE, reason |-> "none",
          outcome |-> IF kind = "flood" THEN "raised" ELSE "apology"]
    ELSE IF kind = "private"
    THEN [respond |-> TRUE, reason |-> "private_message", outcome |-> "typing"]
    ELSE LET r == should_respond(text, profile, FALSE, draws) IN
         [respond |-> r.respond, reason |-> r.reason, outcome |-> "typing"]

\* How a handler goes on after add_message. handle_flood_message: the
\* exception of add_message leaves the handler; otherwise the decision (lines
\* 1059-1064) and, for a reply, the await of send_chat_action (1079).
\* handle_private_message: the exception is caught (1132) and the handler
\* awaits the apology (1134); otherwise it awaits send_chat_action (1116), a
\* private event being always answered.
handler_continues(kind, text, profile, draws, profile_ok) ==
    IF ~profile_ok
    THEN [respond |-> FALSE, reason |-> "none",
          outcome |-> IF kind = "flood" THEN "raised" ELSE "apology"]
    ELSE IF kind = "private"
    THEN [respond |-> TRUE, reason |-> "private_message", outcome |-> "typing"]
    ELSE LET r == should_respond(text, profile, FALSE, draws) IN
         [respond |-> r.respond, reason |-> r.reason,
          outcome |-> IF r.respond THEN "typing" ELSE "returned"]

\* An event that passes line 1049 or 1098: the Message is created (lines
\* 1052, 1102-1109), add_message is called (lines 1056, 1113) and the handler
\* goes on to its first suspension.
GatePasses(kind, user_id, username, text, draws, enc_ok, profile_ok) ==
    LET gate == check_cooldown(last_reaction, user_profiles, user_id, clock)
        message_id == gate_op.calls + 1
        msg == score_message(create_message_object(user_id, username, text, clock,
                                                   message_id))
    IN  /\ gate.ok
        /\ last_reaction' = gate.last_reaction
        /\ accepted_at' = [accepted_at EXCEPT ![user_id] = clock]
        /\ AddMessage(msg, enc_ok, profile_ok)
        /\ ingested' = [ingested EXCEPT ![user_id] = @ + 1]
        /\ LET next == handler_continues(kind, text,
                                         decision_profile(user_profiles', user_id),
                                         draws, profile_ok) IN
           /\ reply_tasks' = IF next.outcome \in {"typing", "apology"}
                             THEN SetItem(reply_tasks, message_id, next.outcome)
                             ELSE reply_tasks
           /\ gate_op' = [kind |-> kind, user_id |-> user_id, is_bot |-> FALSE,
                          time |-> clock, message_id |-> message_id, passed |-> TRUE,
                          previous |-> accepted_at[user_id],
                          level |-> gate_level(user_profiles, user_id),
                          added |-> TRUE, respond |-> next.respond,
                          reason |-> next.reason, outcome |-> next.outcome,
                          calls |-> gate_op.calls + 1,
                          unpruned |-> check_cooldown(accepted_at, user_profiles,
                                                      user_id, clock).ok]
           /\ reply_log' = IF kind = "flood"
                            THEN SetItem(reply_log, message_id,
                                         [respond |-> next.respond, inference |-> 0,
                                          sent |-> 0])
                            ELSE reply_log
        /\ UNCHANGED <<db_messages, clock, store_op>>

GateTexts == {FRAG_BOT, FRAG_NU}

\* handle_flood_message (lines 1042-1089) up to its first suspension: the gate
\* (1049), add_message (1056), whose exception leaves the handler, the
\* decision (1059-1064) and, for a reply, get_smart_context up to the await
\* of send_chat_action (1079). The draws are on either side of every
\* threshold of the decision; the embedding service answers.
handle_flood_message ==
    /\ gate_op.calls < MaxArrivals
    /\ \/ \E user_id \in Authors : GateReturns("flood", user_id, FALSE)
       \/ GateReturns("flood", BotUser, TRUE)
       \/ \E user_id \in Authors, text \in GateTexts, draws \in {<<0, 0>>, <<99, 99>>},
             profile_ok \in BOOLEAN :
             GatePasses("flood", user_id, "dimon", text, draws, TRUE, profile_ok)

\* handle_private_message (lines 1091-1134) up to its first suspension: the
\* gate (1098), add_message (1113) and the await of send_chat_action (1116);
\* an exception of add_message is caught (1132) and the handler awaits the
\* apology (1134). A private event is always answered.
handle_private_message ==
    /\ gate_op.calls < MaxArrivals
    /\ \/ \E user_id \in Authors : GateReturns("private", user_id, FALSE)
       \/ GateReturns("private", BotUser, TRUE)
       \/ \E user_id \in Authors, profile_ok \in BOOLEAN :
             GatePasses("private", user_id, "dimon", FRAG_NU, <<0, 0>>, TRUE, profile_ok)

\* The calls of ask_local_model and of send_message / reply_text a suspended
\* handler makes before it ends. handle_flood_message (lines 1079-1089):
\* send_chat_action raises and the except block only logs, or ask_local_model
\* (which raises nothing) and one send_message, delivered or not.
\* handle_private_message (lines 1116-1134): the except block sends the
\* apology, after send_chat_action raised or after reply_text did; a handler
\* waiting to apologise sends the apology.
ReplyPaths(kind, task) ==
    IF task = "apology" THEN {[inference |-> 0, sent |-> 1]}
    ELSE IF kind = "flood"
    THEN {[inference |-> 0, sent |-> 0], [inference |-> 1, sent |-> 1]}
    ELSE {[inference |-> 0, sent |-> 1], [inference |-> 1, sent |-> 1],
          [inference |-> 1, sent |-> 2]}

\* A suspended handler runs to its end: send_chat_action, ask_local_model and
\* the reply (lines 1079-1082, 1116-1130), or the apology (line 1134). It
\* reads the memory engine (get_smart_context) and writes none of it.
finish_reply ==
    /\ \E message_id \in DOMAIN reply_tasks :
          /\ reply_tasks' = [m \in DOMAIN reply_tasks \ {message_id} |-> reply_tasks[m]]
          /\ IF message_id \in DOMAIN reply_log
             THEN \E path \in ReplyPaths("flood", reply_tasks[message_id]) :
                     reply_log' = [reply_log EXCEPT
                                      ![message_id].inference = @ + path.inference,
                                      ![message_id].sent = @ + path.sent]
             ELSE reply_log' = reply_log
    /\ UNCHANGED <<last_reaction, ingested, accepted_at, gate_op, memVars>>

\* time.time() moves on between two events
advance_time ==
    /\ clock < StartTime + cooldown
    /\ clock' = clock + 1
    /\ UNCHANGED <<profileVars, indexVars, recent_messages, pushed, db_messages,
                   save_tasks, store_op, gateVars>>

\* The process stays without events for longer than cleanup_interval
idle_past_horizon ==
    /\ clock <= StartTime + cooldown
    /\ clock' = clock + cleanup_interval + 1
    /\ UNCHANGED <<profileVars, indexVars, recent_messages, pushed, db_messages,
                   save_tasks, store_op, gateVars>>

\* SmartBot.__init__ (line 909) and no event handled yet
GateIdle ==
    /\ last_reaction = EmptyProfiles
    /\ ingested = [u \in Authors |-> 0]
    /\ accepted_at = [u \in Authors |-> 0]
    /\ reply_tasks = EmptyProfiles
    /\ gate_op = NoGateOp
    /\ reply_log = EmptyProfiles

\* The event `i` of an author's earlier conversation, one a minute
SeedMessage(i) ==
    score_message(create_message_object(1, "dimon", FRAG_NU, StartTime - DAY + 60 * i, -i))

\* A process in which author 1 has had `count` events handled in the group,
\* each past the gate, while the embedding service was down (the index and
\* table messages stayed empty, lines 355 and 577) and none answered
GateStart(count) ==
    LET seeds == [i \in 1..count |-> SeedMessage(i)] IN
    /\ db_messages = <<>>
    /\ db_user_profiles = IF count = 0 THEN {}
                          ELSE {profile_row(ProfileAfterEvents(SeedMessage(count), count))}
    /\ recent_messages = LastN(seeds, context_window)
    /\ pushed = seeds
    /\ embeddings = <<>>
    /\ messages = <<>>
    /\ added = <<>>
    /\ index_op = NoIndexOp
    /\ user_profiles = IF count = 0 THEN EmptyProfiles
                       ELSE SetItem(EmptyProfiles, 1,
                                    ProfileAfterEvents(SeedMessage(count), count))
    /\ profile_op = NoProfileOp
    /\ pure_run = [u \in Authors |-> IF count # 0 /\ u = 1 THEN -1 ELSE 0]
    /\ save_tasks = <<>>
    /\ clock = StartTime
    /\ store_op = NoStoreOp
    /\ last_reaction = IF count = 0 THEN EmptyProfiles
                       ELSE SetItem(EmptyProfiles, 1, SeedMessage(count).timestamp)
    /\ ingested = [u \in Authors |-> IF u = 1 THEN count ELSE 0]
    /\ accepted_at = [u \in Authors |-> IF count # 0 /\ u = 1
                                        THEN SeedMessage(count).timestamp ELSE 0]
    /\ reply_tasks = EmptyProfiles
    /\ gate_op = NoGateOp
    /\ reply_log = EmptyProfiles

BotIdle == SchemaIdle /\ InferIdle /\ GateIdle /\ ReplyIdle



(***************************************************************************)
(* Profile Evolution: properties (specification SpecProfile).              *)
(***************************************************************************)

\* The four bands of the interaction count
Band(count) ==
    IF count > 50 THEN "bratan"
    ELSE IF count > 20 THEN "priyatel"
    ELSE IF count > 5 THEN "znakomyj"
    ELSE "neznakomec"

TierRank(level) ==
    CASE level = "neznakomec" -> 0
      [] level = "znakomyj" -> 1
      [] level = "priyatel" -> 2
      [] level = "bratan" -> 3

\* The profile object the latest update worked on, as it is now
Updated == user_profiles[profile_op.user_id]

C15_TraitsFollowSentiment ==
    /\ \A u \in Authors :
          pure_run[u] > 0 =>
              /\ u \in DOMAIN user_profiles
              /\ user_profiles[u].personality_traits
                     = [agressivnost |-> 5, druzhelyubnost |-> 5 + pure_run[u], yumor |-> 5]
              /\ user_profiles[u].interaction_count = pure_run[u]
              /\ user_profiles[u].relationship_level = Band(pure_run[u])
    /\ profile_op.kind = "update" =>
          LET before == profile_op.before.personality_traits
              after == Updated.personality_traits
              sentiment == profile_op.message.sentiment
          IN  /\ sentiment = "negative" =>
                    /\ after.agressivnost = before.agressivnost + 1
                    /\ after.druzhelyubnost = before.druzhelyubnost
              /\ sentiment = "neutral" =>
                    /\ after.agressivnost = before.agressivnost
                    /\ after.druzhelyubnost = before.druzhelyubnost

\* Two positive events from a new author: friendliness 0.7, count 2, stranger
C15_Witness ==
    \E u \in Authors :
        /\ pure_run[u] = 2
        /\ profile_op.kind = "update" /\ profile_op.user_id = u
        /\ profile_op.before.interaction_count = 1
        /\ user_profiles[u].personality_traits.druzhelyubnost = 7
        /\ user_profiles[u].relationship_level = "neznakomec"

\* C18: a profile survives a restart: the first update a process makes for an
\* author who has a persisted profile continues from the persisted values
\* (the interaction count becomes the persisted count + 1), so the persisted
\* interaction count of an author never decreases, whatever the updates and
\* restarts.
C18_ProfileSurvivesRestart ==
    [][\A u \in Authors :
          \A old \in get_user_profile(db_user_profiles, u) :
              /\ \A new \in get_user_profile(db_user_profiles', u) :
                    new.interaction_count >= old.interaction_count
              /\ (u \notin DOMAIN user_profiles /\ u \in DOMAIN user_profiles') =>
                    user_profiles'[u].interaction_count = old.interaction_count + 1]_vars

\* C19: after every profile update that returns normally the persisted row of
\* the author, read back, equals the profile in memory (display name, traits,
\* interests, interaction count, last-seen, tier), and the store never holds
\* more than one row for an author id.
C19_PersistedEqualsMemory ==
    /\ (profile_op.kind = "update" /\ profile_op.saved) =>
          get_user_profile(db_user_profiles, profile_op.user_id) = {Updated}
    /\ \A u \in Authors :
          Cardinality({r \in db_user_profiles : r.user_id = u}) <= 1

\* A saved update has replaced the row of an author who changed the display
\* name and had five interactions before
C19_Witness ==
    /\ profile_op.kind = "update" /\ profile_op.saved
    /\ profile_op.before.interaction_count = 5
    /\ profile_op.before.username # Updated.username
    /\ \E r \in db_user_profiles :
          r.user_id = profile_op.user_id /\ r.interaction_count = 6

(***************************************************************************)
(* Vector Index: properties (specification SpecIndex).                     *)
(***************************************************************************)

\* The similarity of the index entry at position i to the latest query
Similarity(i) == dot(embeddings[i], encode(index_op.query))

\* C13: the index never holds more than 1000 entries; a search never returns
\* an event whose dot product with the query is <= 0.3, returns at most k
\* events, ordered by descending similarity, and returns nothing when the
\* index is empty.
C13_IndexBoundedSearchFiltered ==
    /\ Len(embeddings) <= 1000
    /\ Len(messages) <= 1000
    /\ index_op.kind = "search" =>
          LET hits == index_op.hits IN
          /\ index_op.result = [k \in 1..Len(hits) |-> messages[hits[k]]]
          /\ \A k \in 1..Len(hits) : Similarity(hits[k]) > 30
          /\ Len(hits) <= index_op.limit
          /\ \A j, k \in 1..Len(hits) :
                j < k => Similarity(hits[j]) >= Similarity(hits[k])
          /\ embeddings = <<>> => index_op.result = <<>>

\* A search of a full index that has four entries above 0.3 and one at 0.3
\* returned three events, the best strictly better than the last
C13_Witness ==
    /\ index_op.kind = "search"
    /\ Len(embeddings) = 1000
    /\ Len(index_op.result) = 3
    /\ Similarity(index_op.hits[1]) > Similarity(index_op.hits[3])
    /\ \E i \in 1..Len(embeddings) : Similarity(i) = 30
    /\ Cardinality({i \in 1..Len(embeddings) : Similarity(i) > 30}) = 4

\* C14: after any sequence of successful adds the index holds exactly the
\* most recent min(n, 1000) added events, in insertion order: an add at
\* capacity evicts the oldest entry and nothing else, whatever the entries'
\* similarity to a query.
C14_IndexKeepsMostRecent ==
    /\ messages = LastN(added, 1000)
    /\ Len(embeddings) = Len(messages)

\* 1001 events were added: the first is gone, the second is now the oldest
C14_Witness ==
    /\ Len(added) = 1001
    /\ Len(messages) = 1000
    /\ messages[1] = added[2]
    /\ messages[1000] = added[1001]

(***************************************************************************)
(* Recency Window and Persistent Store: properties (specification          *)
(* SpecStore).                                                             *)
(***************************************************************************)

\* C12: after any sequence of pushes, by the warm-up at startup and by live
\* ingestion, the window holds at most context_window events: exactly the
\* most recently pushed ones, oldest first; a push into a full window evicts
\* the oldest element only.
C12_WindowHoldsMostRecent ==
    /\ Len(recent_messages) <= context_window
    /\ recent_messages = LastN(pushed, context_window)

\* A live event was pushed into a window the warm-up had filled: the oldest
\* event is gone, the others moved up and the new one is last
C12_Witness ==
    /\ store_op.kind = "add"
    /\ Len(pushed) = context_window + 1
    /\ Len(recent_messages) = context_window
    /\ recent_messages[1] = pushed[2]
    /\ recent_messages[context_window] = store_op.message

\* C16: the retention sweep with a horizon of 30 days removes from table
\* messages exactly the rows whose timestamp is older than now - 30 days and
\* keeps every other row, in order.
C16_SweepRemovesExactlyOlder ==
    store_op.kind = "cleanup" =>
        db_messages = SelectSeq(store_op.before,
                                LAMBDA r : r.message.timestamp >= store_op.time - 30 * DAY)

\* The sweep ran over events 31 days, 30 days and one day old: the first is
\* deleted, the other two are kept
C16_Witness ==
    /\ store_op.kind = "cleanup"
    /\ store_op.time = StartTime
    /\ Len(store_op.before) = 3
    /\ store_op.before[1].message.timestamp = store_op.time - 31 * DAY
    /\ store_op.before[3].message.timestamp = store_op.time - DAY
    /\ db_messages = SubSeq(store_op.before, 2, 3)

\* C17: the retention sweep returns to its caller the number of rows it
\* deleted.
C17_SweepReturnsCount ==
    store_op.kind = "cleanup" =>
        store_op.returned = [none |-> FALSE, value |-> store_op.deleted]

\* C20: an event whose embedding fails while it is ingested is still appended
\* to table messages.
C20_SavedDespiteEmbeddingFailure ==
    (store_op.kind = "save" /\ ~store_op.enc_ok) =>
        \E i \in 1..Len(db_messages) : db_messages[i].message = store_op.message

\* C21: when the embedding service fails, an add leaves both lists of the
\* index as they were and a search returns the empty list and leaves them as
\* they were; neither call raises (both bodies are inside try/except
\* Exception, lines 342-356 and 360-372), so the step completes with the
\* call's outcome recorded in index_op.
C21_IndexFailureIsNoOp ==
    [][/\ (index_op'.kind = "add" /\ index_op'.adds # index_op.adds /\ ~index_op'.ok)
              => (embeddings' = embeddings /\ messages' = messages)
       /\ (index_op'.kind = "search" /\ ~index_op'.ok)
              => (/\ index_op'.result = <<>>
                  /\ embeddings' = embeddings
                  /\ messages' = messages)]_vars

\* A search fails on an index that is not empty, after an add that failed too
C21_Witness ==
    /\ index_op.kind = "search"
    /\ ~index_op.ok
    /\ index_op.result = <<>>
    /\ embeddings # <<>>
    /\ Len(added) < index_op.adds

\* C29: a retention sweep changes nothing but table messages: the window,
\* the two lists of the index, the profiles in memory and the persisted
\* profiles are the same before and after it, so window and index may hold
\* events the store no longer has.
C29_SweepTouchesOnlyEventLog ==
    [][store_op'.kind = "cleanup" =>
           /\ recent_messages' = recent_messages
           /\ embeddings' = embeddings
           /\ messages' = messages
           /\ user_profiles' = user_profiles
           /\ db_user_profiles' = db_user_profiles]_vars

\* A sweep has deleted an event that the window and the index still hold
C29_Witness ==
    /\ store_op.kind = "cleanup"
    /\ store_op.deleted > 0
    /\ \E i \in DOMAIN recent_messages, k \in DOMAIN messages :
          /\ messages[k] = recent_messages[i]
          /\ \A r \in DOMAIN db_messages : db_messages[r].message # recent_messages[i]
          /\ \E r \in DOMAIN store_op.before :
                store_op.before[r].message = recent_messages[i]

\* The warm-up of the last restart read the store (every selected row was
\* appended to the window), and the encoder answered for every row
WarmUpRead ==
    /\ store_op.kind = "restart"
    /\ Len(pushed) = Min(context_window, Len(db_messages))
WarmUpEncoded == Len(added) = Len(pushed)

\* C27: after a warm-up that read the store, the window holds the
\* min(context_window, total) persisted events with the greatest timestamps,
\* oldest first; when the encoder answered, the index holds the same events
\* in the same order, each with the embedding of its text.
C27_WarmUpLoadsLatest ==
    WarmUpRead =>
        /\ Len(recent_messages) = Min(context_window, Len(db_messages))
        /\ \A i, j \in DOMAIN recent_messages :
              i < j => recent_messages[i].timestamp <= recent_messages[j].timestamp
        /\ \A i \in DOMAIN recent_messages :
              \E r \in DOMAIN db_messages : db_messages[r].message = recent_messages[i]
        /\ \A r \in DOMAIN db_messages :
              \/ \E i \in DOMAIN recent_messages : recent_messages[i] = db_messages[r].message
              \/ \A i \in DOMAIN recent_messages :
                    db_messages[r].message.timestamp <= recent_messages[i].timestamp
        /\ WarmUpEncoded =>
              /\ messages = recent_messages
              /\ embeddings = [i \in DOMAIN recent_messages |->
                                   encode(text_for_embedding(recent_messages[i]))]

\* A restart over a store with more events than the window holds
C27_Witness ==
    /\ WarmUpRead
    /\ WarmUpEncoded
    /\ Len(db_messages) > context_window
    /\ Len(messages) = context_window

\* The events add_message can ingest in this model
LiveMessages ==
    {score_message(create_message_object(1, "dimon", text, t, t)) :
        text \in StoreTexts, t \in StartTime..(StartTime + MaxEvents - 1)}

\* The event's row is in table messages
SaveWritten(msg) == \E r \in DOMAIN db_messages : db_messages[r].message = msg

\* The event's save task has ended in its except branch, which writes the
\* error log entry (line 578)
SaveLogged(msg) ==
    /\ store_op.kind = "save"
    /\ store_op.message = msg
    /\ ~(store_op.enc_ok /\ store_op.db_ok)

\* C26: while the process keeps running and the event loop runs the pending
\* save tasks, every ingested event whose save task is pending is eventually
\* written to table messages or reported by an error log entry; and the step
\* of a failing save task changes nothing of the ingestion path's state.
C26_SavedOrLoggedEventually ==
    /\ \A msg \in LiveMessages :
          (\E k \in DOMAIN save_tasks : save_tasks[k] = msg)
              ~> (SaveWritten(msg) \/ SaveLogged(msg))
    /\ [][(store_op'.kind = "save" /\ ~(store_op'.enc_ok /\ store_op'.db_ok))
              => UNCHANGED <<recent_messages, pushed, db_messages, clock,
                             indexVars, profileVars>>]_vars

\* A save task has failed and was logged while a later event's task waits
C26_Witness ==
    /\ save_tasks # <<>>
    /\ \E msg \in LiveMessages : SaveLogged(msg) /\ ~SaveWritten(msg)

\* C28: after the store was opened on a file whose table messages came from
\* an older schema, the table has both attachment columns, every statement
\* that appends or loads succeeds, and a row of the old file reads "no
\* attachment" in each column the old table lacked.
C28_OldSchemaUpgraded ==
    schema_op.opened =>
        /\ messages_table.columns = AttachmentColumns
        /\ schema_op.ok
        /\ schema_op.kind = "load" =>
              \A i \in DOMAIN schema_op.old.rows :
                  /\ schema_op.read[i].text = schema_op.old.rows[i]["text"]
                  /\ "has_image" \notin schema_op.old.columns
                        => schema_op.read[i].has_image = FALSE
                  /\ "image_description" \notin schema_op.old.columns
                        => schema_op.read[i].image_description = <<>>

\* The fixed string ask_local_model returns for each way a request fails
FallbackOf(kind) ==
    CASE kind = "timeout" -> REPLY_TIMEOUT
      [] kind = "bad_status" -> REPLY_BAD_STATUS
      [] kind = "empty_choices" -> REPLY_NO_CHOICES
      [] OTHER -> REPLY_EXCEPTION

FailureKinds == {"timeout", "bad_status", "empty_choices", "exception"}

\* C25: every invocation of ask_local_model has sent at most one request,
\* exactly one once it holds the semaphore; when the request fails with a
\* timeout, an error status, no choices or another exception, the invocation
\* returns in that same step, without a second request, the fixed string of
\* that failure, and when the completion is too short after cleaning it
\* returns the fixed string for that; it never raises.
C25_OneRequestFixedFallback ==
    /\ \A id \in DOMAIN callers :
          /\ callers[id].requests <= 1
          /\ callers[id].pc # "waiting" => callers[id].requests = 1
    /\ infer_op.resp # "none" =>
          /\ infer_op.kind = "return"
          /\ callers[infer_op.caller].pc = "returned"
          /\ ~infer_op.raised
          /\ infer_op.resp \in FailureKinds
                => infer_op.reply = FallbackOf(infer_op.resp)
          /\ infer_op.resp = "ok"
                => \/ Len(infer_op.reply) >= MIN_REPLY_LENGTH
                   \/ infer_op.reply = REPLY_TOO_SHORT

C25_Witness ==
    /\ infer_op.kind = "return"
    /\ infer_op.resp = "timeout"
    /\ infer_op.reply = REPLY_TIMEOUT
    /\ callers[infer_op.caller].requests = 1

InFlight == Cardinality({id \in DOMAIN callers : callers[id].pc = "request"})

\* C24: the invocations of ask_local_model that have a request in flight are
\* never more than max_parallel_requests, whichever of the handlers and the
\* announcement generators they come from; the free slots of the semaphore
\* are exactly the limit less the requests in flight, so every way a request
\* ends gives its slot back; a caller that arrives while the limit is
\* reached waits; and, requests ending and woken callers being resumed, a
\* waiting caller comes to send its request.
C24_LimiterBoundsInFlight ==
    /\ [](/\ InFlight <= max_parallel_requests
          /\ semaphore.value = max_parallel_requests - InFlight)
    /\ [][(Len(callers') > Len(callers) /\ InFlight = max_parallel_requests)
             => callers'[Len(callers')].pc = "waiting"]_vars
    /\ \A id \in 1..MaxCallers :
          (id \in DOMAIN callers /\ callers[id].pc = "waiting")
              ~> (id \in DOMAIN callers /\ callers[id].pc = "request")

C24_Witness ==
    /\ infer_op.kind = "acquire"
    /\ InFlight = max_parallel_requests
    /\ {callers[id].kind : id \in DOMAIN callers} = CallerKinds

\* The interval, in tenths of a second, an author of tier `level` has to
\* leave after an event that passed the gate: cooldown times 1.0, 0.7
\* ("priyatel", friend) or 0.5 ("bratan", close friend)
RequiredInterval(level) ==
    cooldown * (CASE level = "bratan" -> 5 [] level = "priyatel" -> 7 [] OTHER -> 10)

\* The handler of the latest event was called for a human author
HumanEvent == gate_op.kind # "none" /\ ~gate_op.is_bot

OccurrencesIn(msgs, message_id) ==
    Cardinality({i \in DOMAIN msgs : msgs[i].message_id = message_id})

\* C22: an event of an author who has had an event pass the gate passes
\* exactly when its time is at least the required interval of the author's
\* tier, as the profile has it when the gate is asked, after that event; the
\* interval of a higher tier is never longer; a rejected event is not added
\* to the memory engine, gets no decision and leaves no handler waiting to
\* reply.
C22_CooldownGate ==
    /\ RequiredInterval("bratan") <= RequiredInterval("priyatel")
    /\ RequiredInterval("priyatel") <= RequiredInterval("znakomyj")
    /\ RequiredInterval("znakomyj") = RequiredInterval("neznakomec")
    /\ (HumanEvent /\ gate_op.previous # 0) =>
          (gate_op.passed <=>
              10 * (gate_op.time - gate_op.previous) >= RequiredInterval(gate_op.level))
    /\ (HumanEvent /\ ~gate_op.passed) =>
          /\ ~gate_op.respond /\ gate_op.reason = "none" /\ gate_op.outcome = "returned"
          /\ gate_op.message_id \notin DOMAIN reply_tasks
          /\ OccurrencesIn(pushed, gate_op.message_id) = 0

\* The second event of a friend passes sooner than the full cooldown, the
\* first having passed in this run
C22_Witness ==
    /\ HumanEvent /\ gate_op.passed
    /\ gate_op.level = "priyatel"
    /\ gate_op.previous >= StartTime
    /\ gate_op.time - gate_op.previous < cooldown

\* C23: the latest event of a human author, whatever the gate and the
\* decision made of it, is once in the window's pushes, once in the index's
\* adds, once among the tasks for the store, and is the event of the latest
\* profile update.
C23_EveryEventIngestedOnce ==
    HumanEvent =>
        /\ OccurrencesIn(pushed, gate_op.message_id) = 1
        /\ OccurrencesIn(added, gate_op.message_id) = 1
        /\ OccurrencesIn(save_tasks, gate_op.message_id) = 1
        /\ profile_op.message.message_id = gate_op.message_id

\* C30: however the handlers' invocations interleave, each author's
\* interaction count is the number of add_message calls for that author in
\* this process (an author without a profile has had none), a step that
\* handles no event changes no profile, and a step that handles an event
\* changes no profile but its author's.
C30_ProfileCountsIngestion ==
    /\ [](\A u \in Authors :
             IF u \in DOMAIN user_profiles
             THEN user_profiles[u].interaction_count = ingested[u]
             ELSE ingested[u] = 0)
    /\ [][/\ gate_op'.calls = gate_op.calls => user_profiles' = user_profiles
          /\ \A u \in DOMAIN user_profiles :
                u # gate_op'.user_id =>
                    u \in DOMAIN user_profiles' /\ user_profiles'[u] = user_profiles[u]
          /\ \A u \in Authors :
                ingested'[u] # ingested[u] =>
                    /\ ingested'[u] = ingested[u] + 1
                    /\ u = gate_op'.user_id]_vars

\* An author's event is ingested while the handler of an earlier event of
\* the same author is still suspended before its reply, and the other author
\* has a profile too
C30_Witness ==
    /\ HumanEvent /\ gate_op.passed
    /\ \E m \in DOMAIN reply_tasks :
          /\ m < gate_op.message_id
          /\ \E i \in DOMAIN pushed :
                pushed[i].message_id = m /\ pushed[i].user_id = gate_op.user_id
    /\ user_profiles[gate_op.user_id].interaction_count = ingested[gate_op.user_id]

\* C31: after a tick, each announcement the tick sent has its slot's
\* last-sent date equal to the date of the tick, whatever the inference
\* service answered for it (a completion or any of its failures), and no slot
\* has been announced more than once on one date.
C31_SentSlotRecordsToday ==
    /\ \A i \in DOMAIN last_sent.out :
          LET a == last_sent.out[i] IN
          /\ a.slot = "morning" => last_greeting_date = a.date
          /\ a.slot = "evening" => last_farewell_date = a.date
    /\ \A s \in Slots, d \in Dates : sent_count[s, d] <= 1

\* A tick announced the morning slot with the text of a failed inference call
C31_Witness ==
    /\ \E i \in DOMAIN last_sent.out :
          /\ last_sent.out[i].slot = "morning"
          /\ last_sent.out[i].inference = "timeout"
          /\ last_sent.out[i].text = REPLY_TIMEOUT
    /\ last_greeting_date = now.date
    /\ sent_count["morning", now.date] = 1

\* C39: a step changes a slot's last-sent date only when the slot's guard
\* holds before it (workday, inside the window, not sent today) and the step
\* is a tick that announces the slot.
C39_OnlyTicksMarkSlots ==
    [][/\ last_greeting_date' # last_greeting_date =>
             /\ should_send_greeting(now, last_greeting_date)
             /\ \E i \in DOMAIN last_sent'.out : last_sent'.out[i].slot = "morning"
       /\ last_farewell_date' # last_farewell_date =>
             /\ should_send_farewell(now, last_farewell_date)
             /\ \E i \in DOMAIN last_sent'.out : last_sent'.out[i].slot = "evening"]_vars

\* The completion with its ends trimmed, the markers removed one after the
\* other, white-space runs collapsed and the ends trimmed again
CleanedCompletion == JoinSplit(RemoveEach(strip(model_response.content), garbage_markers))

\* C32: for a completion, the reply is the canned "CHyo?" when the cleaned
\* text has fewer than 3 characters, its first 300 characters and "..." when
\* it has more than 300, and the cleaned text itself otherwise; and whatever
\* the service answered, the returned string has from 3 to 303 characters.
C32_ReplyLengthCases ==
    model_response.seen =>
        /\ model_response.kind = "ok" =>
              /\ Len(CleanedCompletion) < 3 => model_reply = REPLY_TOO_SHORT
              /\ Len(CleanedCompletion) > 300 =>
                    model_reply = SubSeq(CleanedCompletion, 1, 300) \o <<46, 46, 46>>
              /\ (Len(CleanedCompletion) >= 3 /\ Len(CleanedCompletion) <= 300) =>
                    model_reply = CleanedCompletion
        /\ Len(model_reply) >= 3
        /\ Len(model_reply) <= 303

\* A completion whose cleaned text has 301 characters is cut to 300 and "..."
C32_Witness ==
    /\ model_response.seen /\ model_response.kind = "ok"
    /\ Len(CleanedCompletion) = 301
    /\ Len(model_reply) = 303

\* C33: the reply to a completion holds none of the markers "###",
\* "Assistant:", "System:", "I am a", "Dimon:" as a substring.
C33_NoMarkerInReply ==
    (model_response.seen /\ model_response.kind = "ok") =>
        \A k \in DOMAIN garbage_markers : ~In(garbage_markers[k], model_reply)

\* C40: the two lists of the index have the same length and the vector at
\* each position is the embedding of the event at that position; the events
\* a search returns are those at the positions whose vectors it ranked.
C40_IndexListsAligned ==
    /\ Len(embeddings) = Len(messages)
    /\ \A i \in DOMAIN messages :
          embeddings[i] = encode(text_for_embedding(messages[i]))
    /\ index_op.kind = "search" =>
          /\ Len(index_op.result) = Len(index_op.hits)
          /\ \A k \in DOMAIN index_op.hits :
                /\ index_op.hits[k] \in DOMAIN embeddings
                /\ index_op.result[k] = messages[index_op.hits[k]]
                /\ embeddings[index_op.hits[k]]
                      = encode(text_for_embedding(index_op.result[k]))

\* A search returns events after an add at capacity has evicted the oldest
C40_Witness ==
    /\ index_op.kind = "search"
    /\ index_op.result # <<>>
    /\ Len(added) > Len(messages)
    /\ Len(messages) = 1000

\* The latest step ran cleanup_old_data
SweepRan == store_op.kind \in {"cleanup", "cleanup_failed"}

\* C35: every run of cleanup_old_data, one whose purge of table messages
\* fails included, leaves last_reaction as it was without the authors whose
\* time is more than cleanup_interval back: none of those is left, the
\* others keep their times.
C35_SweepPrunesIdleAuthors ==
    [][(store_op' # store_op /\ store_op'.kind \in {"cleanup", "cleanup_failed"}) =>
          last_reaction' = prune_last_reaction(last_reaction, clock)]_vars

\* C36: with cleanup_interval >= cooldown, whatever arrivals and runs of
\* cleanup_old_data came before it, the gate answers the latest event of a
\* human author as a gate does whose map was never pruned.
C36_PruningInvisible ==
    /\ cleanup_interval >= cooldown
    /\ HumanEvent => (gate_op.passed <=> gate_op.unpruned)

\* An author's event passes after the entry the author had made in this run
\* was pruned
C36_Witness ==
    /\ HumanEvent /\ gate_op.passed
    /\ store_op.kind = "cleanup"
    /\ gate_op.user_id \in DOMAIN store_op.reaction
    /\ gate_op.user_id \notin DOMAIN prune_last_reaction(store_op.reaction, store_op.time)
    /\ store_op.reaction[gate_op.user_id] >= StartTime
    /\ gate_op.user_id \in DOMAIN last_reaction

\* The elements of `seq` at the positions `flags` marks, in their order
RECURSIVE KeepMarked(_, _)
KeepMarked(seq, flags) ==
    IF seq = <<>> THEN <<>>
    ELSE IF Head(flags) THEN <<Head(seq)>> \o KeepMarked(Tail(seq), Tail(flags))
    ELSE KeepMarked(Tail(seq), Tail(flags))

\* C34: after a warm-up the window holds exactly the rows its SELECT gave
\* (none when it failed) of which a Message could be made, in the order of
\* the selection (oldest first), whichever row could not and whichever rows
\* the index could not take; the rows the index took are in it in that order
\* too, and the warm-up has ended.
C34_WarmUpSkipsBadRowOnly ==
    store_op.kind = "restart" =>
        /\ Len(store_op.decoded) = Len(store_op.rows)
        /\ pushed = KeepMarked([i \in DOMAIN store_op.rows |-> store_op.rows[i].message],
                               store_op.decoded)
        /\ recent_messages = pushed
        /\ \A i \in DOMAIN added :
              \E j \in DOMAIN pushed :
                 /\ pushed[j] = added[i]
                 /\ \A k \in DOMAIN added :
                       k < i => \E l \in DOMAIN pushed : l < j /\ pushed[l] = added[k]

\* A warm-up of three rows in which the second could not be made a Message
\* of and the index did not take the third
C34_Witness ==
    /\ store_op.kind = "restart"
    /\ Len(store_op.rows) = context_window
    /\ ~store_op.decoded[2]
    /\ Len(pushed) = context_window - 1
    /\ Len(added) = 1

\* The events of the group that passed the gate so far: one that returns at
\* line 1050 has no entry, and so no call and no message
FloodEvents == DOMAIN reply_log

\* C38: for every event of the group, the handler has called ask_local_model
\* at most once and sent at most one message, and it has done either only if
\* the event passed the gate and should_respond answered yes; while the
\* handler of an event is still suspended before its reply it has done
\* neither, and the latest event, when the gate rejected it, has no handler
\* suspended and no entry.
C38_ReplyOnlyWhenDecided ==
    /\ \A m \in FloodEvents :
          /\ reply_log[m].inference <= 1 /\ reply_log[m].sent <= 1
          /\ (reply_log[m].inference > 0 \/ reply_log[m].sent > 0
                 \/ m \in DOMAIN reply_tasks) => reply_log[m].respond
          /\ m \in DOMAIN reply_tasks =>
                reply_log[m].inference = 0 /\ reply_log[m].sent = 0
    /\ (gate_op.kind = "flood" /\ ~gate_op.passed) =>
          /\ gate_op.message_id \notin DOMAIN reply_tasks
          /\ gate_op.message_id \notin FloodEvents
    /\ (gate_op.kind = "flood" /\ gate_op.passed) =>
          /\ gate_op.message_id \in FloodEvents
          /\ reply_log[gate_op.message_id].respond = gate_op.respond

\* One event of the group was answered after one call of ask_local_model,
\* another passed the gate and got a negative decision, and no handler is
\* left suspended
C38_Witness ==
    /\ \E m \in FloodEvents : reply_log[m].inference = 1 /\ reply_log[m].sent = 1
    /\ \E m \in FloodEvents : ~reply_log[m].respond /\ reply_log[m].inference = 0
    /\ reply_tasks = EmptyProfiles

\* C37: a call of check_cooldown that rejects leaves last_reaction as it
\* was; one that accepts sets the caller's entry to the time of the call
\* and leaves every other entry as it was, whatever the handler makes of the
\* event afterwards.
C37_GateFrame ==
    [][(gate_op'.calls # gate_op.calls /\ ~gate_op'.is_bot) =>
          IF gate_op'.passed
          THEN /\ DOMAIN last_reaction' = DOMAIN last_reaction \cup {gate_op'.user_id}
               /\ last_reaction'[gate_op'.user_id] = gate_op'.time
               /\ \A u \in DOMAIN last_reaction \ {gate_op'.user_id} :
                     last_reaction'[u] = last_reaction[u]
          ELSE last_reaction' = last_reaction]_vars

\* An event is rejected while the map holds another author too and no
\* handler is suspended before a reply
C37_Witness ==
    /\ HumanEvent /\ ~gate_op.passed
    /\ \E u \in DOMAIN last_reaction : u # gate_op.user_id
    /\ last_reaction[gate_op.user_id] = gate_op.previous
    /\ reply_tasks = EmptyProfiles

(***************************************************************************)
(* Specifications.                                                         *)
(***************************************************************************)

SchedInit == weekday0 \in 0..6 /\ SchedIdle /\ DecideIdle /\ ScoreIdle /\ MemIdle /\ BotIdle

SchedNext ==
    \/ check_scheduled_messages /\ UNCHANGED <<decideVars, scoreVars, memVars, botVars>>
    \/ AdvanceClock /\ UNCHANGED <<decideVars, scoreVars, memVars, botVars>>

SpecSched == SchedInit /\ [][SchedNext]_vars

\* The process starts on a Monday
SchedCommandInit == weekday0 = 0 /\ SchedIdle /\ DecideIdle /\ ScoreIdle /\ MemIdle /\ BotIdle

\* The ticks together with the schedule_test command
SchedCommandNext ==
    \/ check_scheduled_messages /\ UNCHANGED <<decideVars, scoreVars, memVars, botVars>>
    \/ AdvanceClock /\ UNCHANGED <<decideVars, scoreVars, memVars, botVars>>
    \/ schedule_test /\ UNCHANGED <<decideVars, scoreVars, memVars, botVars>>

SpecSchedCommand == SchedCommandInit /\ [][SchedCommandNext]_vars

DecideInit == weekday0 = 0 /\ SchedIdle /\ DecideIdle /\ ScoreIdle /\ MemIdle /\ BotIdle

DecideNext == Decide /\ UNCHANGED <<schedVars, scoreVars, memVars, botVars>>

SpecDecide == DecideInit /\ [][DecideNext]_vars

ScoreInit == weekday0 = 0 /\ SchedIdle /\ DecideIdle /\ ScoreIdle /\ MemIdle /\ BotIdle

ScoreNext == Score /\ UNCHANGED <<schedVars, decideVars, memVars, botVars>>

SpecScore == ScoreInit /\ [][ScoreNext]_vars

OtherIdle == weekday0 = 0 /\ SchedIdle /\ DecideIdle /\ ScoreIdle /\ BotIdle

otherVars == <<schedVars, decideVars, scoreVars, botVars>>

\* The window and the store of a process over an empty store
StoreIdle ==
    /\ recent_messages = <<>> /\ pushed = <<>> /\ db_messages = <<>>
    /\ save_tasks = <<>> /\ clock = StartTime /\ store_op = NoStoreOp

ProfileInit ==
    /\ OtherIdle /\ IndexIdle /\ StoreIdle
    /\ \E start \in StartHistories : ProfilesStart(start)

ProfileNext ==
    \/ update_user_profile /\ UNCHANGED <<otherVars, indexVars, storeVars>>
    \/ Restart /\ UNCHANGED otherVars

SpecProfile == ProfileInit /\ [][ProfileNext]_vars

IndexInit ==
    /\ OtherIdle /\ ProfilesIdle /\ StoreIdle
    /\ \E count \in {0, NearFull} : IndexStart(count)

IndexNext ==
    \/ vector_memory_add /\ UNCHANGED <<otherVars, profileVars, storeVars>>
    \/ vector_memory_search /\ UNCHANGED <<otherVars, profileVars, storeVars>>

SpecIndex == IndexInit /\ [][IndexNext]_vars

StoreInit ==
    /\ OtherIdle
    /\ \E history \in {<<>>, SeedEvents} : StoreStart(history)

StoreNext ==
    \/ add_message /\ UNCHANGED otherVars
    \/ run_save_task /\ UNCHANGED otherVars
    \/ cleanup_old_data_completes /\ UNCHANGED otherVars
    \/ Restart /\ UNCHANGED otherVars

SpecStore == StoreInit /\ [][StoreNext]_vars

\* Stores that hold some of the events of earlier days
SeedHistories == {KeepMarked(SeedEvents, kept) : kept \in [1..Len(SeedEvents) -> BOOLEAN]}

WarmUpInit ==
    /\ OtherIdle
    /\ \E history \in SeedHistories : StoreStart(history)

\* Processes that follow each other over one store file, and the job of line
\* 1375 in each
WarmUpNext ==
    \/ cleanup_old_data /\ UNCHANGED otherVars
    \/ RestartOverBadRows /\ UNCHANGED otherVars

SpecWarmUp == WarmUpInit /\ [][WarmUpNext]_vars

\* One process that keeps running: no restart, and the event loop runs every
\* task it was given (asyncio runs a created task at the next iteration)
StoreLiveNext ==
    \/ add_message /\ UNCHANGED otherVars
    \/ run_save_task /\ UNCHANGED otherVars
    \/ cleanup_old_data_completes /\ UNCHANGED otherVars

SpecStoreLive ==
    /\ StoreInit
    /\ [][StoreLiveNext]_vars
    /\ WF_vars(run_save_task /\ UNCHANGED otherVars)

\* The process is started, any number of times, on a store file that an
\* older or the current version has left
SchemaInit ==
    /\ weekday0 = 0 /\ ReplyIdle /\ SchedIdle /\ DecideIdle /\ ScoreIdle /\ MemIdle /\ InferIdle
    /\ GateIdle
    /\ messages_table \in OldTables
    /\ schema_op = NoSchemaOp

SchemaNext ==
    \/ open_store /\ UNCHANGED <<schedVars, decideVars, scoreVars, replyVars, memVars, inferVars, gateVars>>
    \/ append_message /\ UNCHANGED <<schedVars, decideVars, scoreVars, replyVars, memVars, inferVars, gateVars>>
    \/ load_recent /\ UNCHANGED <<schedVars, decideVars, scoreVars, replyVars, memVars, inferVars, gateVars>>

SpecSchema == SchemaInit /\ [][SchemaNext]_vars

InferInit ==
    /\ weekday0 = 0 /\ ReplyIdle /\ SchedIdle /\ DecideIdle /\ ScoreIdle /\ MemIdle /\ SchemaIdle
    /\ GateIdle
    /\ InferIdle

InferNext ==
    \/ call_ask_local_model /\ UNCHANGED <<schedVars, decideVars, scoreVars, replyVars, memVars, schemaVars, gateVars>>
    \/ wake_up /\ UNCHANGED <<schedVars, decideVars, scoreVars, replyVars, memVars, schemaVars, gateVars>>
    \/ inference_responds /\ UNCHANGED <<schedVars, decideVars, scoreVars, replyVars, memVars, schemaVars, gateVars>>

SpecInfer == InferInit /\ [][InferNext]_vars

\* Every request ends, at the latest by the session's total timeout (line
\* 932), and the event loop resumes a caller that a release has woken
SpecInferLive ==
    /\ InferInit
    /\ [][InferNext]_vars
    /\ WF_vars(wake_up /\ UNCHANGED <<schedVars, decideVars, scoreVars, replyVars, memVars, schemaVars, gateVars>>)
    /\ WF_vars(inference_responds
                  /\ UNCHANGED <<schedVars, decideVars, scoreVars, replyVars, memVars, schemaVars, gateVars>>)

SeedCounts == {0, 20, 50}

GateInit ==
    /\ weekday0 = 0 /\ ReplyIdle /\ SchedIdle /\ DecideIdle /\ ScoreIdle /\ SchemaIdle /\ InferIdle
    /\ \E count \in SeedCounts : GateStart(count)

GateNext ==
    \/ handle_flood_message /\ UNCHANGED <<schedVars, decideVars, scoreVars, replyVars, schemaVars, inferVars>>
    \/ handle_private_message /\ UNCHANGED <<schedVars, decideVars, scoreVars, replyVars, schemaVars, inferVars>>
    \/ finish_reply /\ UNCHANGED <<schedVars, decideVars, scoreVars, replyVars, schemaVars, inferVars>>
    \/ advance_time /\ UNCHANGED <<schedVars, decideVars, scoreVars, replyVars, schemaVars, inferVars>>

SpecGate == GateInit /\ [][GateNext]_vars

\* The handler of private events, which asks the gate as the handler of the
\* group does, and the job of line 1375, which the event loop runs between
\* two invocations
SweepNext ==
    \/ handle_private_message /\ UNCHANGED <<schedVars, decideVars, scoreVars, replyVars, schemaVars, inferVars>>
    \/ advance_time /\ UNCHANGED <<schedVars, decideVars, scoreVars, replyVars, schemaVars, inferVars>>
    \/ idle_past_horizon /\ UNCHANGED <<schedVars, decideVars, scoreVars, replyVars, schemaVars, inferVars>>
    \/ cleanup_old_data
       /\ UNCHANGED <<schedVars, decideVars, scoreVars, replyVars, schemaVars, inferVars,
                      ingested, accepted_at, reply_tasks, gate_op, reply_log>>

SpecSweep == GateInit /\ [][SweepNext]_vars

ReplyInit ==
    /\ weekday0 = 0 /\ SchedIdle /\ DecideIdle /\ ScoreIdle /\ MemIdle
    /\ SchemaIdle /\ InferIdle /\ GateIdle /\ ReplyIdle

ReplyNext ==
    post_process
    /\ UNCHANGED <<schedVars, decideVars, scoreVars, memVars, schemaVars, inferVars, gateVars>>

SpecReply == ReplyInit /\ [][ReplyNext]_vars
====
